---- MODULE Spec2Model ----
(***************************************************************************)
(* The asynchronous image-generation workflow of the MetroTex backends:    *)
(* submit a job to Stable Horde, poll its status, resolve or time out.     *)
(*                                                                         *)
(* The repository holds several server variants; a deployment runs one of  *)
(* them.  "internal" is the internally-polling POST /generate-image of     *)
(* server.js (the same handler is in part_009 and, without the rate-limit  *)
(* wording of the outer catch, in part_005); "history" is the              *)
(* client-polled POST /generate-image and GET /image-status/:jobId of      *)
(* part_008, behind its rate-limiting middleware; "sqlite" is the          *)
(* client-polled pair of part_003; "checksleep" is the check-then-sleep     *)
(* POST /generate-image of part_004.  "chat" is POST /chat of server.js with *)
(* its session memory, and "limiter" is the rate-limiting middleware that  *)
(* every request of part_008 passes before its handler.                    *)
(***************************************************************************)
EXTENDS Integers, Sequences, FiniteSets, TLC

\* ---------------------------------------------------------------- bounds
\* number of /generate-image requests that can be in flight
NumRequests == 2
\* longest list of model groups the submission loop is run over
MaxGroups == 2
\* number of GET /image-status requests of a run
NumPolls == 2
\* number of POST /generate-image requests of a run of a client-polled variant
NumSubmits == 1
\* number of POST /chat requests of a run
NumChats == 2
\* number of requests of a run that pass the rate-limiting middleware
NumClients == 2
\* most status answers without result that the nominal provider gives a job
MaxPending == 3
\* most timers of the rate limiter that are overdue at once, among those of
\* the requests admitted before the run
MaxLate == 1

\* ---------------------------------------------------- program constants
maxAttempts == 45

\* config.RATE_LIMIT.max of part_008
RateLimitMax == 100

\* ------------------------------------------------------ JavaScript values
undefined == "<undefined>"
null == "<null>"

\* JavaScript truthiness of the values the handlers test
Truthy(v) == v \notin {undefined, null, ""}

\* a || b
Or(a, b) == IF Truthy(a) THEN a ELSE b

\* `${v}` inside a template literal
Interp(v) == IF v = undefined THEN "undefined" ELSE IF v = null THEN "null" ELSE v

\* a message is the sequence of the pieces its template literal joins
Contains(msg, piece) == \E i \in 1..Len(msg) : msg[i] = piece

Requests == 1..NumRequests

Polls == 1..NumPolls

Submits == 1..NumSubmits

Chats == 1..NumChats

Clients == 1..NumClients

\* ------------------------------------------------------------ model groups
ModelNames ==
  <<"Realistic Vision", "AbsoluteReality", "Deliberate", "Anything-V3",
    "Dreamlike Diffusion", "ChilloutMix", "RevAnimated", "AbyssOrangeMix2">>

\* a list of n model groups, each an ordered list of model names
GroupList(n) == [g \in 1..n |-> <<ModelNames[2 * g - 1], ModelNames[2 * g]>>]

\* ------------------------------------------------- the upstream provider
\* the opaque id the provider assigns to the submission of request r for
\* its g-th group: every submission gets an id of its own
JobIdOf(r, g) == "job" \o ToString(r) \o "_" \o ToString(g)

NoError == [response |-> FALSE, status |-> 0, message |-> undefined, code |-> undefined]

\* what axios throws: a timeout, a connection error, or a non-2xx answer
AxiosErrors ==
  { [response |-> FALSE, status |-> 0, message |-> undefined, code |-> "ECONNABORTED"],
    [response |-> FALSE, status |-> 0, message |-> undefined, code |-> "ECONNRESET"] }
  \cup [response : {TRUE}, status : {400, 401, 404, 429, 500},
        message : {undefined, "10 per 1 minute", "upstream says no"},
        code : {"ERR_BAD_REQUEST"}]

\* the provider's rate limit: HTTP 429 with the message '10 per 1 minute'
IsRateLimit(error) ==
  error.response /\ error.status = 429 /\ error.message = "10 per 1 minute"

\* 2xx bodies of POST /generate/async for request r, group g
InitiateBodies(r, g) ==
  [id : {undefined, JobIdOf(r, g)},
   model : {undefined, "SDXL"},
   warnings : {undefined, "none", "NoAvailableWorker", "Other"},
   message : {undefined, "No workers are online"}]

\* 2xx bodies of GET /generate/status/{id}.  The handlers read the first
\* element of generations only, and a body without generations takes the
\* same branches as one with the empty list, which stands for both.
Generations ==
  { <<>> } \cup { <<g>> : g \in [img : {undefined, "https://x/1.png"},
                                 model : {undefined, "stable_diffusion"}] }

StatusBodies ==
  [generations : Generations,
   done : BOOLEAN,
   faulted : BOOLEAN,
   fault_message : {undefined, "", "NSFW filter triggered"}]

\* a provider that behaves as documented: it accepts the submission, and a
\* status answer is pending, done with an image, or faulted with a message;
\* the answer to the asked-th status query of a job is pending only up to
\* MaxPending
NominalInitiateBodies(r, g) ==
  { b \in InitiateBodies(r, g) :
      b.id # undefined /\ b.model = undefined /\ b.warnings = undefined
      /\ b.message = undefined }

NominalStatusBodies(asked) ==
  { b \in StatusBodies :
      \/ /\ b.generations = <<>> /\ ~b.done /\ ~b.faulted /\ b.fault_message = undefined
         /\ asked <= MaxPending
      \/ /\ Len(b.generations) > 0
         /\ b.generations[1].img # undefined /\ b.generations[1].model # undefined
         /\ b.done /\ ~b.faulted /\ b.fault_message = undefined
      \/ b.generations = <<>> /\ ~b.done /\ b.faulted
         /\ b.fault_message = "NSFW filter triggered" }

\* ------------------------------------------------------------------ state
VARIABLES
  variant,        \* which server variant is deployed
  provider,       \* "any": every answer axios can deliver; "nominal": as documented
  env,            \* process.env
  modelGroups,    \* const modelGroups of POST /generate-image
  pc,             \* per request: where the async handler stands
  body,           \* per request: req.body
  width,          \* per request: let width (height is always equal to it)
  gi,             \* per request: index of modelsToTry in modelGroups
  jobId,          \* per request: let jobId
  finalModelUsed, \* per request: let finalModelUsed
  generationWarning, \* per request: let generationWarning
  attempts,       \* per request: let attempts
  imageUrl,       \* per request: let imageUrl
  sent,           \* per request: the HTTP responses sent on res, in order
  image_generations, \* Firestore collection image_generations
  inflight,       \* status queries sent to the provider and not yet answered
  submitted,      \* per request: the groups a submission was sent for, in order
  discarded,      \* per request: job ids dropped on a NoAvailableWorker warning
  nQueries,       \* per request: number of status queries issued
  queried,        \* per request: the job ids status queries were issued for
  firstGen,       \* per request: the first generation of the first status answer with one
  queriedAfterGen, \* per request: a status query was issued after that answer
  faultAt,        \* per request: the status answer taken as a fault
  qFailedAt,      \* per request: the status query that threw (0: none)
  acceptedModel,  \* per request: finalModelUsed when the submission was accepted
  badRequest,     \* per request: the submission the provider rejected with HTTP 400
  rateLimited,    \* per request: the last call the provider's rate limit rejected ("none", "submit", "status")
  faultedGen,     \* per request: the generation with an img of a status answer that also set faulted
  images,         \* client-polled variants: the rows of table images
  dbPending,      \* statements handed to db.run without waiting for them
  hpc,            \* per submission: where the async handler stands
  hjobId,         \* per submission: const jobId / const hordeJobId
  hsent,          \* per submission: the HTTP responses sent, in order
  hsubmitted,     \* the job ids the provider has created
  spc,            \* per status request: where the async handler stands
  sparam,         \* per status request: req.params.jobId / req.params.imageId
  sjobId,         \* per status request: the job id the upstream status is asked for
  sresult,        \* per status request: const result of part_008 while the handler runs
  ssent,          \* per status request: the HTTP responses sent, in order
  sfor,           \* per status request: the submission whose checkUrl it follows (0: none)
  supstream,      \* per status request: what the upstream status query returned
  sessionMemory,  \* const sessionMemory of server.js: key -> entry
  chat_entries,   \* Firestore collection chat_entries
  cpc,            \* per chat request: where the async handler stands
  cbody,          \* per chat request: req.body
  reply,          \* per chat request: let reply
  usingFallback,  \* per chat request: let usingFallback
  csent,          \* per chat request: the HTTP responses sent, in order
  chain,          \* per chat request: the calls to Gemini and Mistral and their outcomes, in order
  cprompt,        \* per chat request: what the persona sent to Gemini took from the session memory
  memWriter,      \* per key of sessionMemory: the chat request that wrote the entry last (0: none)
  memReadFrom,    \* per chat request: the chat requests whose writes it has read
  requestCounts,  \* const requestCounts of part_008: ip -> count
  rateTimers,     \* the pending setTimeout callbacks of the middleware
  lpc,            \* per client request: where it stands at the middleware
  lip,            \* per client request: req.ip
  countWriter,    \* per ip: the client request that wrote the count last (0: none)
  countReadFrom,  \* per client request: the client requests whose writes it has read
  earlier,        \* per ip: pending timers of the requests admitted before the run
  earlierFresh,   \* per ip: how many of those requests were admitted less than windowMs ago
  fresh,          \* the client requests admitted less than windowMs ago
  lsent,          \* per client request: the HTTP responses the middleware sent
  kpc,            \* part_004: where the async handler of POST /generate-image stands
  kprompt,        \* part_004: req.body.prompt
  kjobId,         \* part_004: const jobId
  kattempts,      \* part_004: let attempts
  kimageUrl,      \* part_004: let imageUrl
  ksent,          \* part_004: the HTTP responses sent, in order
  kchecks,        \* part_004: number of check queries issued
  kdelays,        \* part_004: number of one-second delays that have elapsed
  kfaulted,       \* part_004: a check answer had the fault flag set
  kdone,          \* part_004: a check answer reported done
  kthrown         \* part_004: the call to the provider that threw ("none", "submit", "check", "result")

pollerVars ==
  <<pc, body, width, gi, jobId, finalModelUsed, generationWarning, attempts,
    imageUrl, sent, image_generations, inflight, submitted, discarded,
    nQueries, queried, firstGen, queriedAfterGen, faultAt, qFailedAt, acceptedModel, badRequest,
    rateLimited, faultedGen>>

statusVars ==
  <<images, dbPending, hpc, hjobId, hsent, hsubmitted, spc, sparam, sjobId, sresult,
    ssent, sfor, supstream>>

chatVars ==
  <<sessionMemory, chat_entries, cpc, cbody, reply, usingFallback, csent, chain, cprompt,
    memWriter, memReadFrom>>

limiterVars ==
  <<requestCounts, rateTimers, lpc, lip, countWriter, countReadFrom, earlier, earlierFresh,
    fresh, lsent>>

checkVars ==
  <<kpc, kprompt, kjobId, kattempts, kimageUrl, ksent, kchecks, kdelays, kfaulted, kdone, kthrown>>

vars == <<variant, provider, env, modelGroups, checkVars, pollerVars, statusVars, chatVars, limiterVars>>

NoGen == [seen |-> FALSE, img |-> undefined, model |-> undefined]
NoFault == [k |-> 0, fault_message |-> undefined]
NoBadRequest == [at |-> 0, message |-> undefined]

\* ------------------------------------------------------------- responses
Json(status, error, url, model) ==
  [status |-> status, error |-> error, imageUrl |-> url, model |-> model]

ErrorJson(status, error) == Json(status, error, undefined, undefined)

\* the text of the 503 answer when no warning was kept
NoWorkersText ==
  <<"Failed to initiate image generation. No suitable workers found for the selected models. Please try again later.">>

TimeoutText ==
  <<"Image generation timed out on Stable Horde. This can happen with very complex prompts, larger resolutions, or unusually low worker availability. Please try again or simplify your request.">>

\* errorMessage of the outer catch of POST /generate-image
OuterCatchMessage(error) ==
  IF error.response /\ Truthy(error.message)
    THEN IF error.message = "10 per 1 minute"
           THEN <<"You are generating images too quickly. Please wait a minute and try again.">>
           ELSE <<"Image generation failed: ", Interp(error.message)>>
  ELSE IF error.code = "ECONNABORTED"
    THEN <<"Image generation request timed out (Backend to Stable Horde). Please try again or simplify your message.">>
  ELSE IF error.response /\ error.status = 404
    THEN <<"Stable Horde API endpoint not found. This might be a misconfiguration or a change in their API.">>
  ELSE IF error.response /\ error.status = 401
    THEN <<"Stable Horde API key unauthorized. Please check your API key or kudos.">>
  ELSE <<"Failed to generate image. Please try again later.">>


NoResponse == Json(0, <<>>, undefined, undefined)

\* res.status(..).json(..) / res.json(..): the handler sends and is finished
Send(r, response) ==
  IF response = NoResponse THEN sent[r] ELSE Append(sent[r], response)

\* ------------------------------------------------------------------ Init
\* process.env as the handlers read it
Envs ==
  [GEMINI_IMAGE_GEN : {undefined, "true"},
   STABLE_HORDE_API_KEY : {undefined, "0000000000"},
   GEMINI_API_KEY : {"AIza"}]

\* process.env as POST /chat reads it
ChatEnvs ==
  [GEMINI_IMAGE_GEN : {undefined},
   STABLE_HORDE_API_KEY : {"0000000000"},
   GEMINI_API_KEY : {undefined, "AIza"}]

InitPoller(active) ==
  /\ pc = [r \in Requests |-> IF r \in active THEN "start" ELSE "absent"]
  /\ body = [r \in Requests |-> [prompt |-> undefined, imageSize |-> undefined]]
  /\ width = [r \in Requests |-> 0]
  /\ gi = [r \in Requests |-> 0]
  /\ jobId = [r \in Requests |-> null]
  /\ finalModelUsed = [r \in Requests |-> "N/A"]
  /\ generationWarning = [r \in Requests |-> null]
  /\ attempts = [r \in Requests |-> 0]
  /\ imageUrl = [r \in Requests |-> null]
  /\ sent = [r \in Requests |-> <<>>]
  /\ image_generations = {}
  /\ inflight = {}
  /\ submitted = [r \in Requests |-> <<>>]
  /\ discarded = [r \in Requests |-> {}]
  /\ nQueries = [r \in Requests |-> 0]
  /\ queried = [r \in Requests |-> {}]
  /\ firstGen = [r \in Requests |-> NoGen]
  /\ queriedAfterGen = [r \in Requests |-> FALSE]
  /\ faultAt = [r \in Requests |-> NoFault]
  /\ qFailedAt = [r \in Requests |-> 0]
  /\ acceptedModel = [r \in Requests |-> undefined]
  /\ badRequest = [r \in Requests |-> NoBadRequest]
  /\ rateLimited = [r \in Requests |-> "none"]
  /\ faultedGen = [r \in Requests |-> NoGen]

\* a status request before it arrives
NoResult ==
  [status |-> undefined, imageUrl |-> undefined, seed |-> undefined, details |-> <<>>,
   waitTime |-> undefined, queuePosition |-> undefined]

\* no upstream status answer received (yet)
NoUpstream == [state |-> "none", done |-> FALSE, faulted |-> FALSE, img |-> undefined]

InitStatus(active) ==
  /\ images = {}
  /\ dbPending = {}
  /\ hpc = [h \in Submits |-> IF active THEN "start" ELSE "absent"]
  /\ hjobId = [h \in Submits |-> undefined]
  /\ hsent = [h \in Submits |-> <<>>]
  /\ hsubmitted = {}
  /\ spc = [p \in Polls |-> IF active THEN "start" ELSE "absent"]
  /\ sparam = [p \in Polls |-> <<>>]
  /\ sjobId = [p \in Polls |-> undefined]
  /\ sresult = [p \in Polls |-> NoResult]
  /\ ssent = [p \in Polls |-> <<>>]
  /\ sfor = [p \in Polls |-> 0]
  /\ supstream = [p \in Polls |-> NoUpstream]

\* an entry of sessionMemory; a key without entry has present = FALSE
NoMem == [present |-> FALSE, userName |-> null, personality |-> ""]

\* POST /chat takes its key from the request: conversationId || userId
UserOf(c) == "user" \o ToString(c)

ConversationIds == {undefined, "conv1"}

SessionKeys == (ConversationIds \ {undefined}) \cup {UserOf(c) : c \in Chats}

NoBody == [message |-> undefined, conversationId |-> undefined, context |-> <<>>]

\* the persona of a request that has not built one, or built the one of a
\* forced search, takes nothing from the session memory
NoPrompt == [personality |-> "", userName |-> null]

InitChat(active) ==
  /\ sessionMemory = [k \in SessionKeys |-> NoMem]
  /\ chat_entries = {}
  /\ cpc = [c \in Chats |-> IF c \in active THEN "start" ELSE "absent"]
  /\ cbody = [c \in Chats |-> NoBody]
  /\ reply = [c \in Chats |-> undefined]
  /\ usingFallback = [c \in Chats |-> FALSE]
  /\ csent = [c \in Chats |-> <<>>]
  /\ chain = [c \in Chats |-> <<>>]
  /\ cprompt = [c \in Chats |-> NoPrompt]
  /\ memWriter = [k \in SessionKeys |-> 0]
  /\ memReadFrom = [c \in Chats |-> {}]

\* req.ip of the requests that reach the middleware
Ips == {"10.0.0.1", "10.0.0.2"}

\* the numbers of requests that one ip had admitted just before the run
Preloads == {0, RateLimitMax - 1, RateLimitMax}

\* the middleware before the requests of the run: the first ip has had
\* requests admitted a moment ago, whose timers are pending
InitLimiter(active) ==
  /\ \E k \in (IF active THEN Preloads ELSE {0}) :
       /\ requestCounts = [ip \in Ips |-> IF ip = "10.0.0.1" THEN k ELSE 0]
       /\ earlier = requestCounts
       /\ earlierFresh = requestCounts
  /\ rateTimers = {}
  /\ fresh = {}
  /\ lpc = [c \in Clients |-> IF active THEN "start" ELSE "absent"]
  /\ lip = [c \in Clients |-> undefined]
  /\ lsent = [c \in Clients |-> <<>>]
  /\ countWriter = [ip \in Ips |-> 0]
  /\ countReadFrom = [c \in Clients |-> {}]

\* the handler of part_004 before its request
InitCheck(active) ==
  /\ kpc = IF active THEN "start" ELSE "absent"
  /\ kprompt = undefined
  /\ kjobId = undefined
  /\ kattempts = 0
  /\ kimageUrl = undefined
  /\ ksent = <<>>
  /\ kchecks = 0
  /\ kdelays = 0
  /\ kfaulted = FALSE
  /\ kdone = FALSE
  /\ kthrown = "none"

\* one request against any provider behaviour, over lists of 0..MaxGroups
\* groups (the list written in the source holds one group)
\* a client-polled variant before its requests, against any provider
\* behaviour
InitClientPolled ==
  /\ provider = "any"
  /\ variant \in {"history", "sqlite"}
  /\ env = [GEMINI_IMAGE_GEN |-> undefined, STABLE_HORDE_API_KEY |-> "0000000000",
            GEMINI_API_KEY |-> "AIza"]
  /\ modelGroups = GroupList(0)
  /\ InitPoller({})
  /\ InitStatus(TRUE)
  /\ InitChat({})
  /\ InitLimiter(FALSE)
  /\ InitCheck(FALSE)

Init ==
  /\ provider = "any"
  /\ \/ /\ variant = "internal"
        /\ env \in Envs
        /\ modelGroups \in {GroupList(n) : n \in 0..MaxGroups}
        /\ InitPoller({1})
        /\ InitStatus(FALSE)
        /\ InitChat({})
        /\ InitLimiter(FALSE)
        /\ InitCheck(FALSE)
     \/ InitClientPolled

\* the server of part_004 with one request, against any provider behaviour
InitCheckSleep ==
  /\ provider = "any"
  /\ variant = "checksleep"
  /\ env = [GEMINI_IMAGE_GEN |-> undefined, STABLE_HORDE_API_KEY |-> "0000000000",
               GEMINI_API_KEY |-> "AIza"]
  /\ modelGroups = GroupList(0)
  /\ InitPoller({})
  /\ InitStatus(FALSE)
  /\ InitChat({})
  /\ InitLimiter(FALSE)
  /\ InitCheck(TRUE)

\* every request in flight at once, against a provider that behaves as
\* documented, with the list of one model group the source defines
InitConc ==
  /\ provider = "nominal"
  /\ variant = "internal"
  /\ env = [GEMINI_IMAGE_GEN |-> undefined, STABLE_HORDE_API_KEY |-> "0000000000",
               GEMINI_API_KEY |-> "AIza"]
  /\ modelGroups = GroupList(1)
  /\ InitPoller(Requests)
  /\ InitStatus(FALSE)
  /\ InitChat({})
  /\ InitLimiter(FALSE)
  /\ InitCheck(FALSE)

\* the endpoints that keep process-wide state: one POST /chat request
\* against any behaviour of Gemini, Mistral, the web search and Firestore;
\* or every POST /chat request in flight at once, Gemini and Firestore
\* answering; or requests passing the rate-limiting middleware of part_008
InitShared ==
  /\ modelGroups = GroupList(0)
  /\ InitPoller({})
  /\ InitStatus(FALSE)
  /\ \/ /\ variant = "chat"
        /\ provider = "any"
        /\ env \in ChatEnvs
        /\ InitChat({1})
        /\ InitLimiter(FALSE)
        /\ InitCheck(FALSE)
     \/ /\ variant = "chat"
        /\ provider = "nominal"
        /\ env \in {e \in ChatEnvs : Truthy(e.GEMINI_API_KEY)}
        /\ InitChat(Chats)
        /\ InitLimiter(FALSE)
        /\ InitCheck(FALSE)
     \/ /\ variant = "limiter"
        /\ provider = "nominal"
        /\ env \in {e \in ChatEnvs : Truthy(e.GEMINI_API_KEY)}
        /\ InitChat({})
        /\ InitLimiter(TRUE)
        /\ InitCheck(FALSE)

\* ------------------------------------- POST /generate-image (server.js)
Prompts == IF provider = "nominal" THEN {"a red bicycle"} ELSE {undefined, "", "a red bicycle"}

ImageSizes == IF provider = "nominal" THEN {undefined} ELSE {undefined, "768x768", "1024x1024"}

\* let width / let height from imageSize
WidthOf(imageSize) ==
  IF imageSize = "768x768" THEN 768
  ELSE IF imageSize = "1024x1024" THEN 1024
  ELSE 512

\* the locals of the handler after a step, and the answer it sent (if any)
Frame(r) ==
  [pc |-> pc[r], gi |-> gi[r], jobId |-> jobId[r],
   finalModelUsed |-> finalModelUsed[r],
   generationWarning |-> generationWarning[r],
   attempts |-> attempts[r], imageUrl |-> imageUrl[r],
   response |-> NoResponse]

\* return res.status(s).json({ error })
Answer(f, response) == [f EXCEPT !.pc = "done", !.response = response]

\* the loop condition written with <= : one attempt too many
PollLoopHead_OffByOne(f) ==
  IF ~Truthy(f.imageUrl) /\ f.attempts <= maxAttempts
    THEN [f EXCEPT !.pc = "sleep", !.attempts = f.attempts + 1]
  ELSE IF Truthy(f.imageUrl)
    THEN [f EXCEPT !.pc = "save"]
  ELSE Answer(f, ErrorJson(504, TimeoutText))

\* the head of   while (!imageUrl && attempts < maxAttempts)   and what
\* follows the loop: one more attempt (attempts++, setTimeout), or the
\* Firestore write of a found image, or the 504
PollLoopHead(f) ==
  IF ~Truthy(f.imageUrl) /\ f.attempts < maxAttempts
    THEN [f EXCEPT !.pc = "sleep", !.attempts = f.attempts + 1]
  ELSE IF Truthy(f.imageUrl)
    THEN [f EXCEPT !.pc = "save"]
  ELSE Answer(f, ErrorJson(504, TimeoutText))

\* the   if (!jobId)   check left out: polling starts without a job
AfterGroups_NoJobCheck(f) == PollLoopHead([f EXCEPT !.imageUrl = null, !.attempts = 0])

\* after the for loop:   if (!jobId) 503   else   the poll loop starts
AfterGroups(f) ==
  IF ~Truthy(f.jobId)
    THEN Answer(f, ErrorJson(503,
           IF Truthy(f.generationWarning) THEN <<f.generationWarning>>
                                          ELSE NoWorkersText))
  ELSE PollLoopHead([f EXCEPT !.imageUrl = null, !.attempts = 0])

\* the next iteration of   for (const modelsToTry of modelGroups)
NextGroup(f) ==
  IF f.gi < Len(modelGroups)
    THEN [f EXCEPT !.pc = "initiate", !.gi = f.gi + 1]
  ELSE AfterGroups(f)

\* some(w => w.code === 'NoAvailableWorker') on data.warnings
HasNoAvailableWorker(warnings) == warnings = "NoAvailableWorker"

\* the   jobId = null   before continue left out
InitiateOk_KeepsJobId(f, data) ==
  LET jid == data.id
      fmu == Or(data.model, modelGroups[f.gi][1])
      gw == IF Truthy(data.warnings) /\ HasNoAvailableWorker(data.warnings)
              THEN Or(data.message, "No available workers for these models/size.")
              ELSE null
      g == [f EXCEPT !.jobId = jid, !.finalModelUsed = fmu, !.generationWarning = gw]
  IN IF Truthy(gw) THEN NextGroup(g)
     ELSE IF Truthy(jid) THEN AfterGroups(g)
     ELSE NextGroup(g)

\* body of the try block after axios.post has answered 2xx with data
InitiateOk(f, data) ==
  LET jid == data.id
      fmu == Or(data.model, modelGroups[f.gi][1])
      gw == IF Truthy(data.warnings) /\ HasNoAvailableWorker(data.warnings)
              THEN Or(data.message, "No available workers for these models/size.")
              ELSE null
      g == [f EXCEPT !.jobId = jid, !.finalModelUsed = fmu, !.generationWarning = gw]
  IN IF Truthy(gw) THEN NextGroup([g EXCEPT !.jobId = null])
     ELSE IF Truthy(jid) THEN AfterGroups(g)
     ELSE NextGroup(g)

\* HTTP 400 treated like any other failed submission
InitiateFailed_400Soft(f, error) == NextGroup(f)

\* the 400 answered without return: the loop over the groups goes on
InitiateFailed_NoReturn(f, error) ==
  IF error.response /\ error.status = 400
    THEN [[f EXCEPT !.pc = "initiate"] EXCEPT !.response = ErrorJson(400,
           <<"Stable Horde Bad Request: ", Or(error.message, "Check prompt or parameters.")>>)]
  ELSE NextGroup(f)

\* catch (initiateError)
InitiateFailed(f, error) ==
  IF error.response /\ error.status = 400
    THEN Answer(f, ErrorJson(400,
           <<"Stable Horde Bad Request: ", Or(error.message, "Check prompt or parameters.")>>))
  ELSE NextGroup(f)

\* the model of the generation ignored
StatusOk_IgnoresGenerationModel(f, data) ==
  IF Len(data.generations) > 0
    THEN PollLoopHead([f EXCEPT !.imageUrl = data.generations[1].img])
  ELSE IF data.faulted
    THEN Answer(f, ErrorJson(500,
           <<"Image generation failed on Stable Horde: ", Interp(data.fault_message)>>))
  ELSE PollLoopHead(f)

\* a fault only logged: polling goes on
StatusOk_RetriesFault(f, data) ==
  IF Len(data.generations) > 0
    THEN PollLoopHead([f EXCEPT
           !.imageUrl = data.generations[1].img,
           !.finalModelUsed = Or(data.generations[1].model, f.finalModelUsed)])
  ELSE PollLoopHead(f)

\* the fault answered without return: the loop goes on after the answer
StatusOk_FaultNoReturn(f, data) ==
  IF Len(data.generations) > 0
    THEN PollLoopHead([f EXCEPT
           !.imageUrl = data.generations[1].img,
           !.finalModelUsed = Or(data.generations[1].model, f.finalModelUsed)])
  ELSE IF data.faulted
    THEN [[f EXCEPT !.pc = "sleep", !.attempts = f.attempts + 1] EXCEPT !.response =
            ErrorJson(500,
              <<"Image generation failed on Stable Horde: ", Interp(data.fault_message)>>)]
  ELSE PollLoopHead(f)

\* the fault flag tested before the generations
StatusOk_FaultFirst(f, data) ==
  IF data.faulted
    THEN Answer(f, ErrorJson(500,
           <<"Image generation failed on Stable Horde: ", Interp(data.fault_message)>>))
  ELSE IF Len(data.generations) > 0
    THEN PollLoopHead([f EXCEPT
           !.imageUrl = data.generations[1].img,
           !.finalModelUsed = Or(data.generations[1].model, f.finalModelUsed)])
  ELSE PollLoopHead(f)

\* body of the while loop after axios.get has answered 2xx with data
StatusOk(f, data) ==
  IF Len(data.generations) > 0
    THEN PollLoopHead([f EXCEPT
           !.imageUrl = data.generations[1].img,
           !.finalModelUsed = Or(data.generations[1].model, f.finalModelUsed)])
  ELSE IF data.faulted
    THEN Answer(f, ErrorJson(500,
           <<"Image generation failed on Stable Horde: ", Interp(data.fault_message)>>))
  ELSE PollLoopHead(f)

\* a thrown error only logged inside the loop: polling goes on
OuterCatch_Retries(f, error) == PollLoopHead(f)

\* a catch that still delivers an image that was found
OuterCatch_ImageAnyway(f, error) ==
  IF Truthy(f.imageUrl)
    THEN Answer(f, Json(200, <<>>, f.imageUrl, f.finalModelUsed))
    ELSE Answer(f, ErrorJson(500, OuterCatchMessage(error)))

\* catch (error) of the whole handler
OuterCatch(f, error) == Answer(f, ErrorJson(500, OuterCatchMessage(error)))

\* the handler up to its first await
Entry(r, b) ==
  LET f == Frame(r) IN
  IF variant = "internal" /\ env.GEMINI_IMAGE_GEN = "true"
    THEN Answer(f, ErrorJson(501,
           <<"Gemini API does not currently support image generation. Please use Stable Horde or another supported provider.">>))
  ELSE IF ~Truthy(b.prompt)
    THEN Answer(f, ErrorJson(400, <<"Image prompt is required.">>))
  ELSE IF ~Truthy(env.STABLE_HORDE_API_KEY)
    THEN Answer(f, ErrorJson(500, <<"Server configuration error: Image generation key missing.">>))
  ELSE NextGroup([f EXCEPT !.gi = 0, !.jobId = null, !.finalModelUsed = "N/A",
                           !.generationWarning = null])

\* the locals and the answer of frame f become the state of request r
Commit(r, f) ==
  /\ pc' = [pc EXCEPT ![r] = f.pc]
  /\ gi' = [gi EXCEPT ![r] = f.gi]
  /\ jobId' = [jobId EXCEPT ![r] = f.jobId]
  /\ finalModelUsed' = [finalModelUsed EXCEPT ![r] = f.finalModelUsed]
  /\ generationWarning' = [generationWarning EXCEPT ![r] = f.generationWarning]
  /\ attempts' = [attempts EXCEPT ![r] = f.attempts]
  /\ imageUrl' = [imageUrl EXCEPT ![r] = f.imageUrl]
  /\ sent' = [sent EXCEPT ![r] = Send(r, f.response)]
  /\ submitted' = [submitted EXCEPT ![r] =
                     IF f.pc = "initiate" THEN Append(@, f.gi) ELSE @]
  /\ acceptedModel' = [acceptedModel EXCEPT ![r] =
                         IF pc[r] \in {"start", "initiate"} /\ f.pc = "sleep"
                           THEN f.finalModelUsed ELSE @]

\* POST /generate-image arrives (verifyIdToken has passed)
Arrive(r) ==
  /\ pc[r] = "start"
  /\ \E p \in Prompts, s \in ImageSizes :
       /\ body' = [body EXCEPT ![r] = [prompt |-> p, imageSize |-> s]]
       /\ width' = [width EXCEPT ![r] = WidthOf(s)]
       /\ Commit(r, Entry(r, [prompt |-> p, imageSize |-> s]))
  /\ UNCHANGED <<statusVars, chatVars, limiterVars, variant, provider, env, modelGroups, checkVars, image_generations, inflight,
                 discarded, nQueries, queried, firstGen, queriedAfterGen, faultAt, qFailedAt, badRequest,
                 rateLimited, faultedGen>>

\* await axios.post(.../generate/async) returns or throws
InitiateReturn(r) ==
  /\ pc[r] = "initiate"
  /\ \/ \E data \in (IF provider = "nominal" THEN NominalInitiateBodies(r, gi[r])
                                             ELSE InitiateBodies(r, gi[r])) :
          /\ Commit(r, InitiateOk(Frame(r), data))
          /\ discarded' = [discarded EXCEPT ![r] =
               IF Truthy(data.id) /\ Truthy(data.warnings)
                  /\ HasNoAvailableWorker(data.warnings)
                 THEN @ \cup {data.id} ELSE @]
          /\ UNCHANGED <<badRequest, rateLimited>>
     \/ /\ provider = "any"
        /\ \E error \in AxiosErrors :
             /\ Commit(r, InitiateFailed(Frame(r), error))
             /\ rateLimited' = [rateLimited EXCEPT ![r] =
                  IF IsRateLimit(error) THEN "submit" ELSE @]
             /\ badRequest' = [badRequest EXCEPT ![r] =
                  IF error.response /\ error.status = 400
                    THEN [at |-> gi[r], message |-> error.message] ELSE @]
        /\ UNCHANGED discarded
  /\ UNCHANGED <<statusVars, chatVars, limiterVars, variant, provider, env, modelGroups, checkVars, body, width, image_generations,
                 inflight, nQueries, queried, firstGen, queriedAfterGen, faultAt,
                 qFailedAt, faultedGen>>

\* polling on an interval timer instead of awaiting each query: the next
\* query goes out while the previous one is still outstanding
TimerFire_NoAwait(r) ==
  /\ pc[r] \in {"sleep", "status"}
  /\ nQueries[r] < maxAttempts
  /\ pc' = [pc EXCEPT ![r] = "status"]
  /\ inflight' = inflight \cup {[job |-> jobId[r], req |-> r, n |-> nQueries[r] + 1]}
  /\ nQueries' = [nQueries EXCEPT ![r] = @ + 1]
  /\ queried' = [queried EXCEPT ![r] = @ \cup {jobId[r]}]
  /\ queriedAfterGen' = [queriedAfterGen EXCEPT ![r] = firstGen[r] # NoGen]
  /\ UNCHANGED <<statusVars, chatVars, limiterVars, variant, provider, env, modelGroups, checkVars, body, width, gi, jobId,
                 finalModelUsed, generationWarning, attempts, imageUrl, sent,
                 image_generations, submitted, discarded, firstGen, faultAt, qFailedAt,
                 acceptedModel, badRequest, rateLimited, faultedGen>>

\* the setTimeout of pollInterval fires: axios.get(.../generate/status/jobId)
TimerFire(r) ==
  /\ pc[r] = "sleep"
  /\ pc' = [pc EXCEPT ![r] = "status"]
  /\ inflight' = inflight \cup {[job |-> jobId[r], req |-> r, n |-> nQueries[r] + 1]}
  /\ nQueries' = [nQueries EXCEPT ![r] = @ + 1]
  /\ queried' = [queried EXCEPT ![r] = @ \cup {jobId[r]}]
  /\ queriedAfterGen' = [queriedAfterGen EXCEPT ![r] = firstGen[r] # NoGen]
  /\ UNCHANGED <<statusVars, chatVars, limiterVars, variant, provider, env, modelGroups, checkVars, body, width, gi, jobId,
                 finalModelUsed, generationWarning, attempts, imageUrl, sent,
                 image_generations, submitted, discarded, firstGen, faultAt, qFailedAt,
                 acceptedModel, badRequest, rateLimited, faultedGen>>

\* await axios.get(.../generate/status/jobId) returns or throws
StatusReturn(r) ==
  /\ pc[r] = "status"
  /\ inflight' = inflight \ {[job |-> jobId[r], req |-> r, n |-> nQueries[r]]}
  /\ \/ \E data \in (IF provider = "nominal" THEN NominalStatusBodies(nQueries[r])
                                             ELSE StatusBodies) :
          /\ Commit(r, StatusOk(Frame(r), data))
          /\ firstGen' = [firstGen EXCEPT ![r] =
               IF @ = NoGen /\ Len(data.generations) > 0
                 THEN [seen |-> TRUE, img |-> data.generations[1].img,
                       model |-> data.generations[1].model]
                 ELSE @]
          /\ faultAt' = [faultAt EXCEPT ![r] =
               IF data.faulted /\ Len(data.generations) = 0
                 THEN [k |-> nQueries[r], fault_message |-> data.fault_message]
                 ELSE @]
          /\ faultedGen' = [faultedGen EXCEPT ![r] =
               IF data.faulted /\ Len(data.generations) > 0
                  /\ Truthy(data.generations[1].img)
                 THEN [seen |-> TRUE, img |-> data.generations[1].img,
                       model |-> data.generations[1].model]
                 ELSE @]
          /\ UNCHANGED <<qFailedAt, rateLimited>>
     \/ /\ provider = "any"
        /\ \E error \in AxiosErrors :
             /\ Commit(r, OuterCatch(Frame(r), error))
             /\ rateLimited' = [rateLimited EXCEPT ![r] =
                  IF IsRateLimit(error) THEN "status" ELSE @]
        /\ qFailedAt' = [qFailedAt EXCEPT ![r] = nQueries[r]]
        /\ UNCHANGED <<firstGen, faultAt, faultedGen>>
  /\ UNCHANGED <<statusVars, chatVars, limiterVars, variant, provider, env, modelGroups, checkVars, body, width, image_generations,
                 discarded, nQueries, queried, queriedAfterGen, badRequest>>

\* const imageGenerationEntry
ImageGenerationEntry(r) ==
  [userId |-> r, prompt |-> body[r].prompt, imageUrl |-> imageUrl[r],
   modelUsed |-> finalModelUsed[r], imageSize |-> <<width[r], "x", width[r]>>]

\* after   await db.collection('image_generations').add(entry)   resolved
SaveOk(f) == Answer(f, Json(200, <<>>, f.imageUrl, f.finalModelUsed))

\* await db.collection('image_generations').add(..) resolves or rejects
SaveReturn(r) ==
  /\ pc[r] = "save"
  /\ \/ /\ image_generations' = image_generations \cup {ImageGenerationEntry(r)}
        /\ Commit(r, SaveOk(Frame(r)))
     \/ /\ provider = "any"
        /\ Commit(r, OuterCatch(Frame(r), NoError))
        /\ UNCHANGED image_generations
  /\ UNCHANGED <<statusVars, chatVars, limiterVars, variant, provider, env, modelGroups, checkVars, body, width, inflight,
                 discarded, nQueries, queried, firstGen, queriedAfterGen, faultAt, qFailedAt, badRequest,
                 rateLimited, faultedGen>>

NextPoller == \E r \in Requests :
  Arrive(r) \/ InitiateReturn(r) \/ TimerFire(r) \/ StatusReturn(r) \/ SaveReturn(r)

\* ------------------- the client-polled variants (part_008, part_003)
\* 2xx bodies of GET /generate/status/{id} as StableHorde.getImageResult reads them
HordeGenerations ==
  { <<>> } \cup { <<g>> : g \in [img : {undefined, "https://x/1.png"},
                                 seed : {"1234"}] }

\* wait_time and queue_position are both given or both absent
HordeStatusBodies ==
  { b \in [generations : HordeGenerations,
           done : BOOLEAN,
           faulted : BOOLEAN,
           wait_time : {undefined, "12"},
           queue_position : {undefined, "3"}] :
      b.wait_time = undefined <=> b.queue_position = undefined }

\* status.generations?.[0]?.field; details (generations?.[0]) is kept as the
\* list of at most one generation
FirstGenerationField(generations, field) ==
  IF Len(generations) = 0 THEN undefined ELSE generations[1][field]

\* the fault flag tested before done
getImageResult_FaultFirst(status) ==
  IF status.done /\ ~status.faulted
    THEN [status |-> "completed",
          imageUrl |-> FirstGenerationField(status.generations, "img"),
          seed |-> FirstGenerationField(status.generations, "seed"),
          details |-> status.generations,
          waitTime |-> undefined, queuePosition |-> undefined]
    ELSE [status |-> IF status.faulted THEN "failed" ELSE "processing",
          imageUrl |-> undefined, seed |-> undefined, details |-> <<>>,
          waitTime |-> status.wait_time, queuePosition |-> status.queue_position]

\* the img of the first generation passed on whatever the status
getImageResult_UrlAlways(status) ==
  IF status.done
    THEN [status |-> "completed",
          imageUrl |-> FirstGenerationField(status.generations, "img"),
          seed |-> FirstGenerationField(status.generations, "seed"),
          details |-> status.generations,
          waitTime |-> undefined, queuePosition |-> undefined]
    ELSE [status |-> IF status.faulted THEN "failed" ELSE "processing",
          imageUrl |-> FirstGenerationField(status.generations, "img"),
          seed |-> undefined, details |-> <<>>,
          waitTime |-> status.wait_time, queuePosition |-> status.queue_position]

\* StableHorde.getImageResult, after checkStatus has returned status
getImageResult(status) ==
  IF status.done
    THEN [status |-> "completed",
          imageUrl |-> FirstGenerationField(status.generations, "img"),
          seed |-> FirstGenerationField(status.generations, "seed"),
          details |-> status.generations,
          waitTime |-> undefined, queuePosition |-> undefined]
    ELSE [status |-> IF status.faulted THEN "failed" ELSE "processing",
          imageUrl |-> undefined, seed |-> undefined, details |-> <<>>,
          waitTime |-> status.wait_time, queuePosition |-> status.queue_position]

\* what GET /image-status/:imageId of part_003 answers to a status body with
\* a first generation (or to one that is not done)
sqliteResult(status) ==
  IF status.done
    THEN [status |-> "completed",
          imageUrl |-> FirstGenerationField(status.generations, "img"),
          seed |-> undefined, details |-> <<>>,
          waitTime |-> undefined, queuePosition |-> undefined]
    ELSE [status |-> IF status.faulted THEN "failed" ELSE "processing",
          imageUrl |-> undefined, seed |-> undefined, details |-> <<>>,
          waitTime |-> undefined, queuePosition |-> undefined]

\* what a status request remembers of the upstream answer it was given
Upstream(status) ==
  [state |-> "answered", done |-> status.done, faulted |-> status.faulted,
   img |-> IF status.done THEN FirstGenerationField(status.generations, "img")
                          ELSE undefined]

UpstreamThrew == [state |-> "threw", done |-> FALSE, faulted |-> FALSE, img |-> undefined]

\* const imageId = uuidv4()
ImageIdOf(h) == "uuid" \o ToString(h)

\* a row of table images; ids are the pieces of the template literal that
\* built them
Row(id, horde_job_id) ==
  [id |-> id, horde_job_id |-> horde_job_id, status |-> "pending",
   image_url |-> undefined, seed |-> undefined]

\* statements handed to db.run
Statement(op, id, arg) == [op |-> op, id |-> id, arg |-> arg]

\* UPDATE images SET status = 'completed', image_url = ?, seed = ? WHERE id = ?
UpdateCompleted(table, id, url, seed) ==
  { IF row.id = id
      THEN [row EXCEPT !.status = "completed", !.image_url = url, !.seed = seed]
      ELSE row : row \in table }

\* the table after statement stmt has run (id is the primary key: an INSERT
\* or a change of id that would duplicate a key fails and changes nothing)
Applied(table, stmt) ==
  CASE stmt.op = "insert" ->
         IF \E row \in table : row.id = stmt.id THEN table
         ELSE table \cup {Row(stmt.id, stmt.arg)}
    [] stmt.op = "rename" ->
         IF \E row \in table : row.id = stmt.arg THEN table
         ELSE { IF row.id = stmt.id THEN [row EXCEPT !.id = stmt.arg] ELSE row :
                row \in table }
    [] stmt.op = "complete" ->
         { IF row.id = stmt.id
             THEN [row EXCEPT !.status = "completed", !.image_url = stmt.arg]
             ELSE row : row \in table }

\* res.json / res.status(..).json of POST /generate-image
SubmitJson(code, status, job, imageId, checkUrl, error) ==
  [code |-> code, status |-> status, jobId |-> job, imageId |-> imageId,
   checkUrl |-> checkUrl, error |-> error]

SubmitError(code, error) == SubmitJson(code, undefined, undefined, undefined, <<>>, error)

\* the answer to an accepted submission; checkUrl is the path parameter of
\* `/image-status/${..}`
Submitted(h, job) ==
  IF variant = "history"
    THEN SubmitJson(200, "submitted", job, undefined, <<Interp(job)>>, undefined)
    ELSE SubmitJson(200, "submitted", undefined, ImageIdOf(h), <<ImageIdOf(h)>>, undefined)

\* POST /generate-image arrives
SubmitArrive(h) ==
  /\ hpc[h] = "start"
  /\ \E prompt \in {undefined, "a red bicycle"} :
       IF ~Truthy(prompt)
         THEN /\ hsent' = [hsent EXCEPT ![h] = Append(@, SubmitError(400, "Prompt required"))]
              /\ hpc' = [hpc EXCEPT ![h] = "done"]
         ELSE /\ hpc' = [hpc EXCEPT ![h] = IF variant = "history" THEN "insert" ELSE "generate"]
              /\ UNCHANGED hsent
  /\ UNCHANGED <<variant, provider, env, modelGroups, checkVars, pollerVars, chatVars, limiterVars, images, dbPending, hjobId,
                 hsubmitted, spc, sparam, sjobId, sresult, ssent, sfor, supstream>>

\* part_008: the awaited INSERT of the new row resolves or rejects
SubmitInsertReturn(h) ==
  /\ hpc[h] = "insert"
  /\ \/ /\ images' = Applied(images, Statement("insert", <<ImageIdOf(h)>>, undefined))
        /\ hpc' = [hpc EXCEPT ![h] = "generate"]
        /\ UNCHANGED hsent
     \/ /\ hsent' = [hsent EXCEPT ![h] = Append(@, SubmitError(500, "Image generation failed"))]
        /\ hpc' = [hpc EXCEPT ![h] = "done"]
        /\ UNCHANGED images
  /\ UNCHANGED <<variant, provider, env, modelGroups, checkVars, pollerVars, chatVars, limiterVars, dbPending, hjobId,
                 hsubmitted, spc, sparam, sjobId, sresult, ssent, sfor, supstream>>

\* the statement the handler hands to db.run after the submission, without
\* waiting for it
AfterSubmission(h, job) ==
  IF variant = "history"
    THEN Statement("rename", <<ImageIdOf(h)>>, <<"horde_", Interp(job)>>)
    ELSE Statement("insert", <<ImageIdOf(h)>>, IF job = undefined THEN null ELSE job)

\* await StableHorde.generateImage(..) returns response.data.id or throws
SubmitGenerateReturn(h) ==
  /\ hpc[h] = "generate"
  /\ \/ \E job \in {undefined, JobIdOf(h, 1)} :
          /\ hjobId' = [hjobId EXCEPT ![h] = job]
          /\ hsubmitted' = IF Truthy(job) THEN hsubmitted \cup {job} ELSE hsubmitted
          /\ dbPending' = dbPending \cup {AfterSubmission(h, job)}
          /\ hsent' = [hsent EXCEPT ![h] = Append(@, Submitted(h, job))]
     \/ /\ hsent' = [hsent EXCEPT ![h] = Append(@, SubmitError(500, "Image generation failed"))]
        /\ UNCHANGED <<hjobId, hsubmitted, dbPending>>
  /\ hpc' = [hpc EXCEPT ![h] = "done"]
  /\ UNCHANGED <<variant, provider, env, modelGroups, checkVars, pollerVars, chatVars, limiterVars, images,
                 spc, sparam, sjobId, sresult, ssent, sfor, supstream>>

\* a statement nobody waits for runs, or fails unnoticed
DbApply ==
  /\ \E stmt \in dbPending :
       /\ dbPending' = dbPending \ {stmt}
       /\ \/ images' = Applied(images, stmt)
          \/ UNCHANGED images
  /\ UNCHANGED <<variant, provider, env, modelGroups, checkVars, pollerVars, chatVars, limiterVars, hpc, hjobId, hsent,
                 hsubmitted, spc, sparam, sjobId, sresult, ssent, sfor, supstream>>

\* req.params.jobId.replace('horde_', '') on the ids clients ask for
StripHorde(param) == IF param[1] = "horde_" THEN param[2] ELSE param[1]

\* the path parameter of a status request that follows no checkUrl: a job
\* id, bare or with the horde_ prefix (part_008), an image id (part_003)
StatusParams ==
  IF variant = "history"
    THEN { <<JobIdOf(1, 1)>>, <<"horde_", JobIdOf(1, 1)>>, <<ImageIdOf(1)>> }
    ELSE { <<ImageIdOf(1)>>, <<"no-such-image">> }

\* the checkUrl of every submission that has been answered 'submitted'
CheckUrls ==
  { hsent[h][1].checkUrl : h \in { g \in Submits : Len(hsent[g]) > 0 /\ hsent[g][1].code = 200 } }

\* the submission whose answer gave the path parameter param as checkUrl
Following(param) ==
  IF \E h \in Submits : Len(hsent[h]) > 0 /\ hsent[h][1].code = 200
                        /\ hsent[h][1].checkUrl = param
    THEN CHOOSE h \in Submits : Len(hsent[h]) > 0 /\ hsent[h][1].code = 200
                                /\ hsent[h][1].checkUrl = param
    ELSE 0

\* res.json / res.status(..).json of GET /image-status
StatusJson(code, result, error) ==
  [code |-> code, status |-> result.status, imageUrl |-> result.imageUrl,
   seed |-> result.seed, details |-> result.details, waitTime |-> result.waitTime,
   queuePosition |-> result.queuePosition, error |-> error]

StatusCheckFailed == StatusJson(500, NoResult, "Status check failed")

ImageNotFound == StatusJson(404, NoResult, "Image not found")

\* GET /image-status/:id arrives: part_008 calls StableHorde.getImageResult(jobId),
\* part_003 looks the row up with db.get
PollArrive(p) ==
  /\ spc[p] = "start"
  /\ \E param \in StatusParams \cup CheckUrls :
       /\ sparam' = [sparam EXCEPT ![p] = param]
       /\ sfor' = [sfor EXCEPT ![p] = Following(param)]
       /\ IF variant = "history"
            THEN /\ sjobId' = [sjobId EXCEPT ![p] = StripHorde(param)]
                 /\ spc' = [spc EXCEPT ![p] = "check"]
            ELSE /\ spc' = [spc EXCEPT ![p] = "lookup"]
                 /\ UNCHANGED sjobId
  /\ UNCHANGED <<variant, provider, env, modelGroups, checkVars, pollerVars, chatVars, limiterVars, images, dbPending, hpc,
                 hjobId, hsent, hsubmitted, sresult, ssent, supstream>>

\* part_003: the callback of db.get runs with the row, or without one
PollLookupReturn(p) ==
  /\ spc[p] = "lookup"
  /\ \/ \E row \in images :
          /\ row.id = sparam[p]
          /\ sjobId' = [sjobId EXCEPT ![p] = Interp(row.horde_job_id)]
          /\ spc' = [spc EXCEPT ![p] = "check"]
          /\ UNCHANGED ssent
     \/ \* no row has this id, or the SELECT failed (err is set, row is undefined)
        /\ ssent' = [ssent EXCEPT ![p] = Append(@, ImageNotFound)]
        /\ spc' = [spc EXCEPT ![p] = "done"]
        /\ UNCHANGED sjobId
  /\ UNCHANGED <<variant, provider, env, modelGroups, checkVars, pollerVars, chatVars, limiterVars, images, dbPending, hpc,
                 hjobId, hsent, hsubmitted, sparam, sresult, sfor, supstream>>

\* part_008: await StableHorde.getImageResult(jobId) returns or throws
PollCheckReturn(p) ==
  /\ variant = "history"
  /\ spc[p] = "check"
  /\ \/ \E status \in HordeStatusBodies :
          LET result == getImageResult(status) IN
          /\ supstream' = [supstream EXCEPT ![p] = Upstream(status)]
          /\ IF result.status = "completed"
               THEN /\ spc' = [spc EXCEPT ![p] = "update"]
                    /\ sresult' = [sresult EXCEPT ![p] = result]
                    /\ UNCHANGED ssent
               ELSE /\ spc' = [spc EXCEPT ![p] = "done"]
                    /\ UNCHANGED sresult
                    /\ ssent' = [ssent EXCEPT ![p] = Append(@, StatusJson(200, result, undefined))]
     \/ /\ spc' = [spc EXCEPT ![p] = "done"]
        /\ ssent' = [ssent EXCEPT ![p] = Append(@, StatusCheckFailed)]
        /\ supstream' = [supstream EXCEPT ![p] = UpstreamThrew]
        /\ UNCHANGED sresult
  /\ UNCHANGED <<variant, provider, env, modelGroups, checkVars, pollerVars, chatVars, limiterVars, images, dbPending, hpc,
                 hjobId, hsent, hsubmitted, sparam, sjobId, sfor>>

\* the row is looked for under the id as the client gave it
UpdateKey_Bare(job) == <<job>>

\* `horde_${jobId}`, the id of the row the status handler updates
UpdateKey(job) == <<"horde_", job>>

\* part_008: the awaited UPDATE of the completed row resolves or rejects
PollUpdateReturn(p) ==
  /\ spc[p] = "update"
  /\ \/ /\ images' = UpdateCompleted(images, UpdateKey(sjobId[p]),
                                     sresult[p].imageUrl, sresult[p].seed)
        /\ ssent' = [ssent EXCEPT ![p] = Append(@, StatusJson(200, sresult[p], undefined))]
     \/ /\ ssent' = [ssent EXCEPT ![p] = Append(@, StatusCheckFailed)]
        /\ UNCHANGED images
  /\ spc' = [spc EXCEPT ![p] = "done"]
  /\ sresult' = [sresult EXCEPT ![p] = NoResult]
  /\ UNCHANGED <<variant, provider, env, modelGroups, checkVars, pollerVars, chatVars, limiterVars, dbPending, hpc,
                 hjobId, hsent, hsubmitted, sparam, sjobId, sfor, supstream>>

\* part_003: await StableHorde.checkStatus(row.horde_job_id) returns or
\* throws inside the callback of db.get, where nothing catches: a thrown
\* query, and status.generations[0] of a done status without generations,
\* end the callback without an answer
PollStatusReturn(p) ==
  /\ variant = "sqlite"
  /\ spc[p] = "check"
  /\ \/ \E status \in HordeStatusBodies :
          /\ supstream' = [supstream EXCEPT ![p] = Upstream(status)]
          /\ IF status.done /\ Len(status.generations) = 0
               THEN /\ spc' = [spc EXCEPT ![p] = "lost"]
                    /\ UNCHANGED <<ssent, dbPending>>
               ELSE /\ spc' = [spc EXCEPT ![p] = "done"]
                    /\ ssent' = [ssent EXCEPT ![p] =
                                   Append(@, StatusJson(200, sqliteResult(status), undefined))]
                    /\ dbPending' =
                         IF status.done
                           THEN dbPending \cup
                                  {Statement("complete", sparam[p], status.generations[1].img)}
                           ELSE dbPending
     \/ /\ spc' = [spc EXCEPT ![p] = "lost"]
        /\ supstream' = [supstream EXCEPT ![p] = UpstreamThrew]
        /\ UNCHANGED <<ssent, dbPending>>
  /\ UNCHANGED <<variant, provider, env, modelGroups, checkVars, pollerVars, chatVars, limiterVars, images, hpc,
                 hjobId, hsent, hsubmitted, sparam, sjobId, sresult, sfor>>

NextStatus ==
  \/ \E h \in Submits : SubmitArrive(h) \/ SubmitInsertReturn(h) \/ SubmitGenerateReturn(h)
  \/ DbApply
  \/ \E p \in Polls :
       \/ PollArrive(p) \/ PollLookupReturn(p) \/ PollCheckReturn(p)
       \/ PollUpdateReturn(p) \/ PollStatusReturn(p)

\* ------------------------------------------------ POST /chat (server.js)
\* the messages a request can carry: none, a plain one, one that
\* isCurrentEventQuery takes for a current-event query, the /personality
\* command and one that tells a name
Messages ==
  {undefined, "hello", "what is the latest news", "/personality pirate", "my name is Ada"}

\* req.body of POST /chat; context is the list of earlier messages
ChatBodies ==
  [message : Messages, conversationId : ConversationIds,
   context : {<<>>, <<"earlier message">>}]

\* first messages of a conversation
NominalChatBodies == { b \in ChatBodies : Truthy(b.message) /\ b.context = <<>> }

\* detectCommand(message): the command type, and the value of /personality
detectCommand(message) == IF message = "/personality pirate" THEN "personality" ELSE null

CommandValue(message) == IF message = "/personality pirate" THEN "pirate" ELSE null

\* message.match(/my name is ([a-zA-Z]+)/i)[1], null when the test fails
NameIn(message) == IF message = "my name is Ada" THEN "Ada" ELSE null

isCurrentEventQuery(message) == message = "what is the latest news"

\* one session memory for every request
SessionKey_Global(conversationId, userId) == "conv1"

\* getSessionMemory(conversationId || userId): the key of the entry
SessionKey(conversationId, userId) == Or(conversationId, userId)

\* the entry getSessionMemory creates for a key that has none
FreshMem == [present |-> TRUE, userName |-> null, personality |-> "friendly and natural"]

\* what the persona of the request takes from the entry
PromptOf(mem) == [personality |-> mem.personality, userName |-> mem.userName]

\* String.prototype.trim on the replies of the model
Trim(str) == IF str = " " THEN "" ELSE str

\* makeFriendly(response, context, message); intro is isIntro, starter the
\* outcome of Math.random() < 0.3
makeFriendly(response, intro, starter) ==
  IF ~Truthy(response) THEN response
  ELSE IF intro THEN "Hey! I'm MetroTex, your next-level AI assistant. " \o response
  ELSE IF starter THEN "Great question! " \o response
  ELSE Trim(response)

\* candidates?.[0]?.content?.parts?.[0]?.text of a 2xx answer of Gemini
GeminiTexts == {undefined, "", " ", "Gemini says hi"}

\* choices?.[0]?.message?.content of a 2xx answer of OpenRouter
MistralContents == {undefined, "", " ", "Mistral says hi"}

\* generateSmartFallbackWithoutSearch always returns a text
StaticReply == "I'm MetroTex, your advanced AI assistant."

geminiModel == "gemini-2.5-pro"

\* res.json / res.status(..).json of POST /chat
ChatJson(status, text, fallback, model, error) ==
  [status |-> status, reply |-> text, usingFallback |-> fallback, model |-> model,
   error |-> error]

ChatError(status, error) == ChatJson(status, undefined, undefined, undefined, error)

TechnicalDifficulties ==
  ChatError(500, "I'm experiencing some technical difficulties, but I'm working on it!")

\* what the framework answers when it is one that catches the rejection of
\* an async handler
FrameworkError == ChatError(500, "Internal Server Error")

\* the chat requests whose write to the entry of key a read now sees
ReadsOf(c, key) == {memWriter[key]} \ {0, c}

\* the request up to its first await: checks, session memory, commands
ChatArrive(c) ==
  /\ cpc[c] = "start"
  /\ \E b \in (IF provider = "nominal" THEN NominalChatBodies ELSE ChatBodies) :
       LET key == SessionKey(b.conversationId, UserOf(c))
           mem0 == sessionMemory[key]
           mem1 == IF mem0.present THEN mem0 ELSE FreshMem
           name == NameIn(b.message)
           mem2 == IF detectCommand(b.message) = "personality"
                     THEN [mem1 EXCEPT !.personality = CommandValue(b.message)]
                   ELSE IF Truthy(name) THEN [mem1 EXCEPT !.userName = name]
                   ELSE mem1
       IN
       /\ cbody' = [cbody EXCEPT ![c] = b]
       /\ IF ~Truthy(b.message)
            THEN /\ csent' = [csent EXCEPT ![c] = Append(@, ChatError(400, "Message is required."))]
                 /\ cpc' = [cpc EXCEPT ![c] = "done"]
                 /\ UNCHANGED <<sessionMemory, memWriter, memReadFrom, chain, cprompt>>
          ELSE IF ~Truthy(env.GEMINI_API_KEY)
            THEN /\ csent' = [csent EXCEPT ![c] =
                      Append(@, ChatError(500, "Server configuration error: Gemini API key missing."))]
                 /\ cpc' = [cpc EXCEPT ![c] = "done"]
                 /\ UNCHANGED <<sessionMemory, memWriter, memReadFrom, chain, cprompt>>
          ELSE /\ sessionMemory' = [sessionMemory EXCEPT ![key] = mem2]
               /\ memWriter' = [memWriter EXCEPT ![key] = IF mem2 # mem0 THEN c ELSE @]
               /\ memReadFrom' = [memReadFrom EXCEPT ![c] =
                                    IF mem0.present THEN @ \cup ReadsOf(c, key) ELSE @]
               /\ IF detectCommand(b.message) = "personality"
                    THEN /\ csent' = [csent EXCEPT ![c] = Append(@,
                              ChatJson(200, "Perfect! I'm now using a " \o mem2.personality
                                              \o " personality.",
                                       undefined, undefined, undefined))]
                         /\ cpc' = [cpc EXCEPT ![c] = "done"]
                         /\ UNCHANGED <<chain, cprompt>>
                  ELSE IF isCurrentEventQuery(b.message)
                    THEN /\ cpc' = [cpc EXCEPT ![c] = "search"]
                         /\ UNCHANGED <<csent, chain, cprompt>>
                  ELSE /\ cprompt' = [cprompt EXCEPT ![c] = PromptOf(mem2)]
                       /\ chain' = [chain EXCEPT ![c] = <<"gemini">>]
                       /\ cpc' = [cpc EXCEPT ![c] = "gemini"]
                       /\ UNCHANGED csent
  /\ UNCHANGED <<variant, provider, env, modelGroups, checkVars, pollerVars, statusVars, limiterVars,
                 chat_entries, reply, usingFallback>>

\* await enhancedWebSearch(..) returns results, or null (no keys, no result,
\* or an error it caught); the persona is built and Gemini is called
ChatSearchReturn(c) ==
  /\ cpc[c] = "search"
  /\ \E searchContext \in {null, "search results"} :
       LET key == SessionKey(cbody[c].conversationId, UserOf(c)) IN
       IF Truthy(searchContext)
         THEN UNCHANGED <<cprompt, memReadFrom>>
         ELSE /\ cprompt' = [cprompt EXCEPT ![c] = PromptOf(sessionMemory[key])]
              /\ memReadFrom' = [memReadFrom EXCEPT ![c] = @ \cup ReadsOf(c, key)]
  /\ chain' = [chain EXCEPT ![c] = <<"gemini">>]
  /\ cpc' = [cpc EXCEPT ![c] = "gemini"]
  /\ UNCHANGED <<variant, provider, env, modelGroups, checkVars, pollerVars, statusVars, limiterVars,
                 sessionMemory, chat_entries, cbody, reply, usingFallback, csent, memWriter>>

\* isIntro of makeFriendly for the request
IsIntro(c) == Len(cbody[c].context) = 0

\* makeFriendly and what follows it: the reply is saved, or there is none
Friendly(c, text, fallback) ==
  \E starter \in BOOLEAN :
    LET friendlyReply == makeFriendly(text, IsIntro(c), starter /\ ~IsIntro(c)) IN
    /\ usingFallback' = [usingFallback EXCEPT ![c] = fallback]
    /\ IF Truthy(friendlyReply)
         THEN /\ reply' = [reply EXCEPT ![c] = friendlyReply]
              /\ cpc' = [cpc EXCEPT ![c] = "save"]
              /\ UNCHANGED csent
         ELSE /\ csent' = [csent EXCEPT ![c] = Append(@, TechnicalDifficulties)]
              /\ cpc' = [cpc EXCEPT ![c] = "done"]
              /\ UNCHANGED reply

\* await axios.post(Gemini) returns or throws; an empty reply is thrown too
ChatGeminiReturn(c) ==
  /\ cpc[c] = "gemini"
  /\ \/ \E text \in (IF provider = "nominal" THEN {"Gemini says hi"} ELSE GeminiTexts) :
          IF Truthy(text)
            THEN /\ chain' = [chain EXCEPT ![c] = Append(@, "gemini-ok")]
                 /\ Friendly(c, text, FALSE)
            ELSE /\ chain' = [chain EXCEPT ![c] = @ \o <<"gemini-failed", "mistral">>]
                 /\ usingFallback' = [usingFallback EXCEPT ![c] = TRUE]
                 /\ cpc' = [cpc EXCEPT ![c] = "mistral"]
                 /\ UNCHANGED <<reply, csent>>
     \/ /\ provider = "any"
        /\ chain' = [chain EXCEPT ![c] = @ \o <<"gemini-failed", "mistral">>]
        /\ usingFallback' = [usingFallback EXCEPT ![c] = TRUE]
        /\ cpc' = [cpc EXCEPT ![c] = "mistral"]
        /\ UNCHANGED <<reply, csent>>
  /\ UNCHANGED <<variant, provider, env, modelGroups, checkVars, pollerVars, statusVars, limiterVars,
                 sessionMemory, chat_entries, cbody, cprompt, memWriter, memReadFrom>>

\* await generateMistralFallback(..): the call to OpenRouter returns or
\* throws; without a reply the static response is generated
ChatMistralReturn(c) ==
  /\ cpc[c] = "mistral"
  /\ \/ \E mistralReply \in MistralContents :
          IF Truthy(mistralReply)
            THEN /\ chain' = [chain EXCEPT ![c] = Append(@, "mistral-ok")]
                 /\ Friendly(c, Trim(mistralReply), TRUE)
            ELSE /\ chain' = [chain EXCEPT ![c] = @ \o <<"mistral-failed", "static">>]
                 /\ Friendly(c, StaticReply, TRUE)
     \/ /\ chain' = [chain EXCEPT ![c] = @ \o <<"mistral-failed", "static">>]
        /\ Friendly(c, StaticReply, TRUE)
  /\ UNCHANGED <<variant, provider, env, modelGroups, checkVars, pollerVars, statusVars, limiterVars,
                 sessionMemory, chat_entries, cbody, cprompt, memWriter, memReadFrom>>

\* usingFallback visible in the catch block: the emergency fallback runs
ChatOuterCatch_InScope(fallback) == IF ~fallback THEN "mistral" ELSE "error"

\* catch (error) of POST /chat: usingFallback is declared with let inside
\* the try block, so   if (!usingFallback)   throws a ReferenceError and the
\* promise of the handler is rejected
ChatOuterCatch(fallback) == "rejected"

\* const chatEntryData
ChatEntry(c) ==
  [userId |-> UserOf(c), userMessage |-> cbody[c].message, aiResponse |-> reply[c]]

\* await chatEntryDocRef.set(chatEntryData) resolves or rejects
ChatSaveReturn(c) ==
  /\ cpc[c] = "save"
  /\ \/ /\ chat_entries' = chat_entries \cup {ChatEntry(c)}
        /\ csent' = [csent EXCEPT ![c] = Append(@,
             ChatJson(200, reply[c], usingFallback[c],
                      IF usingFallback[c] THEN "mistral-ai-fallback" ELSE geminiModel,
                      undefined))]
        /\ cpc' = [cpc EXCEPT ![c] = "done"]
        /\ UNCHANGED <<chain, usingFallback>>
     \/ /\ provider = "any"
        /\ UNCHANGED chat_entries
        /\ LET next == ChatOuterCatch(usingFallback[c]) IN
           CASE next = "mistral" ->
                  /\ chain' = [chain EXCEPT ![c] = Append(@, "mistral")]
                  /\ usingFallback' = [usingFallback EXCEPT ![c] = TRUE]
                  /\ cpc' = [cpc EXCEPT ![c] = "mistral"]
                  /\ UNCHANGED csent
             [] next = "error" ->
                  /\ csent' = [csent EXCEPT ![c] = Append(@, TechnicalDifficulties)]
                  /\ cpc' = [cpc EXCEPT ![c] = "done"]
                  /\ UNCHANGED <<chain, usingFallback>>
             [] next = "rejected" ->
                  \* nothing in the handler answers; a framework that
                  \* catches the rejection answers in its place
                  /\ \/ /\ cpc' = [cpc EXCEPT ![c] = "lost"]
                        /\ UNCHANGED csent
                     \/ /\ cpc' = [cpc EXCEPT ![c] = "done"]
                        /\ csent' = [csent EXCEPT ![c] = Append(@, FrameworkError)]
                  /\ UNCHANGED <<chain, usingFallback>>
  /\ UNCHANGED <<variant, provider, env, modelGroups, checkVars, pollerVars, statusVars, limiterVars,
                 sessionMemory, cbody, reply, cprompt, memWriter, memReadFrom>>

NextChat == \E c \in Chats :
  \/ ChatArrive(c) \/ ChatSearchReturn(c) \/ ChatGeminiReturn(c)
  \/ ChatMistralReturn(c) \/ ChatSaveReturn(c)

\* --------------------------- the rate-limiting middleware (part_008)
\* the client requests whose write to the count of ip a read now sees
CountReadsOf(c, ip) == {countWriter[ip]} \ {0, c}

\* config.RATE_LIMIT.windowMs
windowMs == 15 * 60 * 1000

\* res.status(429).json({ error, retryAfter })
TooManyRequests ==
  [status |-> 429, error |-> "Too many requests", retryAfter |-> windowMs \div 1000]

\* the limit tested with > : one request more is admitted
OverLimit_Greater(current) == current > RateLimitMax

\* if (current >= config.RATE_LIMIT.max)
OverLimit(current) == current >= RateLimitMax

\* a request reaches the middleware: 429, or the count goes up, the timer
\* is set and next() runs the handler
LimiterArrive(c) ==
  /\ lpc[c] = "start"
  /\ \E ip \in Ips :
       LET current == requestCounts[ip] IN
       /\ lip' = [lip EXCEPT ![c] = ip]
       /\ countReadFrom' = [countReadFrom EXCEPT ![c] = @ \cup CountReadsOf(c, ip)]
       /\ IF OverLimit(current)
            THEN /\ lpc' = [lpc EXCEPT ![c] = "limited"]
                 /\ lsent' = [lsent EXCEPT ![c] = Append(@, TooManyRequests)]
                 /\ UNCHANGED <<requestCounts, rateTimers, countWriter, fresh>>
            ELSE /\ requestCounts' = [requestCounts EXCEPT ![ip] = current + 1]
                 /\ rateTimers' = rateTimers \cup {[ip |-> ip, by |-> c]}
                 /\ countWriter' = [countWriter EXCEPT ![ip] = c]
                 /\ fresh' = fresh \cup {c}
                 /\ lpc' = [lpc EXCEPT ![c] = "passed"]
                 /\ UNCHANGED lsent
  /\ UNCHANGED <<variant, provider, env, modelGroups, checkVars, pollerVars, statusVars, chatVars,
                 earlier, earlierFresh>>

\* windowMs have passed since request c was admitted
WindowElapses(c) ==
  /\ c \in fresh
  /\ fresh' = fresh \ {c}
  /\ UNCHANGED <<variant, provider, env, modelGroups, checkVars, pollerVars, statusVars, chatVars,
                 requestCounts, rateTimers, lpc, lip, countWriter, countReadFrom, earlier,
                 earlierFresh, lsent>>

\* windowMs have passed since a request of ip was admitted before the run
EarlierWindowElapses(ip) ==
  /\ earlierFresh[ip] > 0
  /\ earlier[ip] - earlierFresh[ip] < MaxLate
  /\ earlierFresh' = [earlierFresh EXCEPT ![ip] = @ - 1]
  /\ UNCHANGED <<variant, provider, env, modelGroups, checkVars, pollerVars, statusVars, chatVars,
                 requestCounts, rateTimers, lpc, lip, countWriter, countReadFrom, earlier,
                 fresh, lsent>>

\* the setTimeout callback of a request runs, windowMs after the request or
\* later
LimiterTimer(c) ==
  /\ c \notin fresh
  /\ \E t \in rateTimers :
       /\ t.by = c
       /\ rateTimers' = rateTimers \ {t}
       /\ countReadFrom' = [countReadFrom EXCEPT ![c] = @ \cup CountReadsOf(c, t.ip)]
       /\ IF requestCounts[t.ip] # 0
            THEN /\ requestCounts' = [requestCounts EXCEPT ![t.ip] = @ - 1]
                 /\ countWriter' = [countWriter EXCEPT ![t.ip] = c]
            ELSE UNCHANGED <<requestCounts, countWriter>>
  /\ UNCHANGED <<variant, provider, env, modelGroups, checkVars, pollerVars, statusVars, chatVars, lpc, lip,
                 earlier, earlierFresh, fresh, lsent>>

\* the setTimeout callback of a request admitted before the run runs
EarlierTimer(ip) ==
  /\ earlier[ip] > earlierFresh[ip]
  /\ earlier' = [earlier EXCEPT ![ip] = @ - 1]
  /\ IF requestCounts[ip] # 0
       THEN requestCounts' = [requestCounts EXCEPT ![ip] = @ - 1]
       ELSE UNCHANGED requestCounts
  /\ UNCHANGED <<variant, provider, env, modelGroups, checkVars, pollerVars, statusVars, chatVars,
                 rateTimers, lpc, lip, countWriter, countReadFrom, earlierFresh, fresh, lsent>>

NextLimiter ==
  \/ \E c \in Clients : LimiterArrive(c) \/ WindowElapses(c) \/ LimiterTimer(c)
  \/ \E ip \in Ips : EarlierWindowElapses(ip) \/ EarlierTimer(ip)

NextShared == NextChat \/ NextLimiter

SpecShared == InitShared /\ [][NextShared]_vars

\* ------------------------------------ POST /generate-image (part_004)
\* const maxAttempts of part_004
maxAttemptsCheck == 30

\* req.body.prompt
CheckPrompts == {undefined, "  ", "a red bicycle"}

\* prompt?.trim()
TrimmedPrompt(prompt) == IF prompt = undefined THEN undefined ELSE Trim(prompt)

\* statusResponse.data of generate/check
CheckBodies == [done : BOOLEAN, faulted : BOOLEAN]

\* resultResponse.data.generations of generate/status
ResultGenerations == { <<>>, <<[img |-> undefined]>>, <<[img |-> "https://x/1.png"]>> }

\* error.message of what axios throws
AxiosMessage(error) ==
  IF error.code = "ECONNABORTED" THEN "timeout exceeded"
  ELSE IF error.response THEN "Request failed with status code"
  ELSE "socket hang up"

CheckJson(status, error, details, image) ==
  [status |-> status, error |-> error, details |-> details, image |-> image]

\* catch (error) of the handler, for what axios threw
CheckCatch(error) ==
  CheckJson(500, "Image generation failed",
            IF error.response THEN Or(error.message, AxiosMessage(error)) ELSE AxiosMessage(error),
            undefined)

\* catch (error) of the handler, for an Error the handler threw itself
CheckCatchThrown(message) == CheckJson(500, "Image generation failed", message, undefined)

\* if (!imageUrl) throw new Error("Image generation timeout"), else res.json
AfterCheckLoop(url) ==
  IF ~Truthy(url)
    THEN CheckCatchThrown("Image generation timeout")
    ELSE CheckJson(200, undefined, "Generated via Stable Horde", url)

\* the loop condition written with <= : one check too many
CheckLoopCondition_OneMore(n) == n <= maxAttemptsCheck

\* while (attempts < maxAttempts)
CheckLoopCondition(n) == n < maxAttemptsCheck

\* the loop body after generate/check has answered: the result is fetched
\* when the job is done, else the handler sleeps a second
AfterCheck(data) == IF data.done THEN "result" ELSE "sleep"

\* the head of the while loop: the next check is sent, or the loop is left
\* without an image
CheckLoopHead(n) ==
  IF CheckLoopCondition(n)
    THEN /\ kchecks' = kchecks + 1
         /\ kpc' = "check"
         /\ UNCHANGED ksent
    ELSE /\ ksent' = Append(ksent, AfterCheckLoop(kimageUrl))
         /\ kpc' = "done"
         /\ UNCHANGED kchecks

\* the request arrives: 400 without a prompt, else the job is submitted
CheckSleepArrive ==
  /\ kpc = "start"
  /\ \E prompt \in CheckPrompts :
       /\ kprompt' = prompt
       /\ IF ~Truthy(TrimmedPrompt(prompt))
            THEN /\ ksent' = Append(ksent, CheckJson(400, "Prompt cannot be empty", undefined, undefined))
                 /\ kpc' = "done"
            ELSE /\ kpc' = "submit"
                 /\ UNCHANGED ksent
  /\ UNCHANGED <<variant, provider, env, modelGroups, pollerVars, statusVars, chatVars, limiterVars,
                 kjobId, kattempts, kimageUrl, kchecks, kdelays, kfaulted, kdone, kthrown>>

\* await axios.post(generate/async) returns or throws
CheckSleepSubmitReturn ==
  /\ kpc = "submit"
  /\ \/ \E id \in {undefined, "job1"} :
          /\ kjobId' = id
          /\ CheckLoopHead(kattempts)
          /\ UNCHANGED kthrown
     \/ \E error \in AxiosErrors :
          /\ ksent' = Append(ksent, CheckCatch(error))
          /\ kpc' = "done"
          /\ kthrown' = "submit"
          /\ UNCHANGED <<kjobId, kchecks>>
  /\ UNCHANGED <<variant, provider, env, modelGroups, pollerVars, statusVars, chatVars, limiterVars,
                 kprompt, kattempts, kimageUrl, kdelays, kfaulted, kdone>>

\* await axios.get(generate/check) returns or throws
CheckSleepCheckReturn ==
  /\ kpc = "check"
  /\ \/ \E data \in CheckBodies :
          /\ kfaulted' = (kfaulted \/ data.faulted)
          /\ kdone' = (kdone \/ data.done)
          /\ kpc' = AfterCheck(data)
          /\ UNCHANGED <<ksent, kthrown>>
     \/ \E error \in AxiosErrors :
          /\ ksent' = Append(ksent, CheckCatch(error))
          /\ kpc' = "done"
          /\ kthrown' = "check"
          /\ UNCHANGED <<kfaulted, kdone>>
  /\ UNCHANGED <<variant, provider, env, modelGroups, pollerVars, statusVars, chatVars, limiterVars,
                 kprompt, kjobId, kattempts, kimageUrl, kchecks, kdelays>>

\* await new Promise(resolve => setTimeout(resolve, 1000)); attempts++
CheckSleepTimerFire ==
  /\ kpc = "sleep"
  /\ kdelays' = kdelays + 1
  /\ kattempts' = kattempts + 1
  /\ CheckLoopHead(kattempts + 1)
  /\ UNCHANGED <<variant, provider, env, modelGroups, pollerVars, statusVars, chatVars, limiterVars,
                 kprompt, kjobId, kimageUrl, kfaulted, kdone, kthrown>>

\* await axios.get(generate/status) returns or throws; generations[0].img
\* of an empty list throws a TypeError; break leaves the loop
CheckSleepResultReturn ==
  /\ kpc = "result"
  /\ \/ /\ \E generations \in ResultGenerations :
             IF Len(generations) = 0
               THEN /\ ksent' = Append(ksent, CheckCatchThrown("Cannot read properties of undefined (reading 'img')"))
                    /\ UNCHANGED kimageUrl
               ELSE /\ kimageUrl' = generations[1].img
                    /\ ksent' = Append(ksent, AfterCheckLoop(generations[1].img))
        /\ UNCHANGED kthrown
     \/ \E error \in AxiosErrors :
          /\ ksent' = Append(ksent, CheckCatch(error))
          /\ kthrown' = "result"
          /\ UNCHANGED kimageUrl
  /\ kpc' = "done"
  /\ UNCHANGED <<variant, provider, env, modelGroups, pollerVars, statusVars, chatVars, limiterVars,
                 kprompt, kjobId, kattempts, kchecks, kdelays, kfaulted, kdone>>

NextCheck ==
  \/ CheckSleepArrive \/ CheckSleepSubmitReturn \/ CheckSleepCheckReturn
  \/ CheckSleepTimerFire \/ CheckSleepResultReturn

SpecCheckSleep == InitCheckSleep /\ [][NextCheck]_vars

Next == NextPoller \/ NextStatus

SpecConc == InitConc /\ [][NextPoller]_vars

Spec == Init /\ [][Next]_vars

\* ================================================================ claims
Answered(r) == pc[r] = "done"

\* the request got past the checks of prompt and configuration
Admitted(r) ==
  /\ pc[r] \notin {"absent", "start"}
  /\ Truthy(body[r].prompt)
  /\ Truthy(env.STABLE_HORDE_API_KEY)
  /\ env.GEMINI_IMAGE_GEN # "true"

\* C1: a submitted job whose status answers never carry a generation nor the
\* fault flag (and whose status queries all return) gets exactly maxAttempts
\* status queries, never more, and the handler then answers HTTP 504.
C1_TimedOutAfterMaxAttempts ==
  \A r \in Requests :
    /\ nQueries[r] <= maxAttempts
    /\ (Answered(r) /\ Truthy(jobId[r]) /\ firstGen[r] = NoGen
        /\ faultAt[r] = NoFault /\ qFailedAt[r] = 0)
         => /\ nQueries[r] = maxAttempts
            /\ sent[r] = <<ErrorJson(504, TimeoutText)>>

C1_Witness ==
  \E r \in Requests :
    /\ Answered(r) /\ firstGen[r] = NoGen /\ faultAt[r] = NoFault /\ qFailedAt[r] = 0
    /\ nQueries[r] = maxAttempts /\ Len(sent[r]) = 1 /\ sent[r][1].status = 504

\* the answer C2 expects for a handler whose first generation came with answer k
SuccessOfFirstGen(r) ==
  Json(200, <<>>, firstGen[r].img, Or(firstGen[r].model, acceptedModel[r]))

\* C2 as claimed: if the k-th status answer is the first that carries a
\* generation, the handler issues exactly k status queries (none after that
\* answer) and answers HTTP 200
\* with that generation's img and model (or the model accepted at submission).
C2_DoneAtFirstGeneration ==
  \A r \in Requests :
    (Answered(r) /\ firstGen[r] # NoGen)
      => ~queriedAfterGen[r] /\ sent[r] = <<SuccessOfFirstGen(r)>>

\* C2 as amended: if the k-th status answer is the first that carries a
\* generation and that generation has a non-empty img, the handler issues
\* exactly k status queries (none after that answer) and then writes the history entry; it answers HTTP
\* 200 with that img and model when the write succeeds, and HTTP 500 with no
\* imageUrl and no entry written when the write fails.
C2_DoneAtFirstGenerationWithImg ==
  \A r \in Requests :
    (firstGen[r] # NoGen /\ Truthy(firstGen[r].img))
      => /\ ~queriedAfterGen[r]
         /\ pc[r] \in {"save", "done"}
         /\ Answered(r) =>
              \/ /\ sent[r] = <<SuccessOfFirstGen(r)>>
                 /\ \E e \in image_generations :
                      e.userId = r /\ e.imageUrl = firstGen[r].img
              \/ /\ sent[r] = <<ErrorJson(500, OuterCatchMessage(NoError))>>
                 /\ \A e \in image_generations : e.userId # r

C2_Witness ==
  \E r \in Requests :
    /\ Answered(r) /\ nQueries[r] = 3 /\ Truthy(firstGen[r].img)
    /\ firstGen[r].model = undefined
    /\ sent[r] = <<SuccessOfFirstGen(r)>>

\* C3: a status answer with the fault flag and no generation ends the handler:
\* it answers HTTP 500 with a message that contains the provider's
\* fault_message, and from then on no status query and no submission is sent.
C3_FaultedAnswer ==
  \A r \in Requests :
    faultAt[r] # NoFault
      => /\ Answered(r)
         /\ nQueries[r] = faultAt[r].k
         /\ Len(sent[r]) = 1 /\ sent[r][1].status = 500
         /\ Truthy(faultAt[r].fault_message)
              => Contains(sent[r][1].error, faultAt[r].fault_message)

C3_FaultedStops ==
  \A r \in Requests :
    faultAt[r] # NoFault
      => /\ nQueries'[r] = nQueries[r]
         /\ submitted'[r] = submitted[r]
         /\ sent'[r] = sent[r]

C3_Faulted == []C3_FaultedAnswer /\ [][C3_FaultedStops]_vars

C3_Witness ==
  \E r \in Requests :
    /\ faultAt[r].k = 2 /\ faultAt[r].fault_message = "NSFW filter triggered"
    /\ Answered(r) /\ sent[r][1].status = 500

\* C4: a 2xx answer with a NoAvailableWorker warning drops that group's job id
\* and, when a further group exists, submits to it without answering the
\* caller; status queries are only ever issued for the job id the provider
\* returned for the accepted (last submitted) group, never for a dropped one.
C4_QueriesUseAcceptedJob ==
  \A r \in Requests :
    /\ queried[r] \cap discarded[r] = {}
    /\ queried[r] # {} => queried[r] = {JobIdOf(r, submitted[r][Len(submitted[r])])}

C4_WarningMovesOn ==
  \A r \in Requests :
    discarded'[r] # discarded[r]
      => /\ jobId'[r] \notin discarded'[r]
         /\ gi[r] < Len(modelGroups)
              => /\ sent'[r] = sent[r]
                 /\ pc'[r] = "initiate"
                 /\ submitted'[r] = Append(submitted[r], gi[r] + 1)

C4_SoftFallback == []C4_QueriesUseAcceptedJob /\ [][C4_WarningMovesOn]_vars

C4_Witness ==
  \E r \in Requests :
    /\ discarded[r] = {JobIdOf(r, 1)}
    /\ queried[r] = {JobIdOf(r, 2)}
    /\ sent[r] = <<>>

\* C5: when the provider rejects a submission with HTTP 400 the handler
\* answers HTTP 400 with the provider's message (when it gave one), submits to
\* no further group and issues no status query.
C5_BadRequestAborts ==
  \A r \in Requests :
    badRequest[r] # NoBadRequest
      => /\ Answered(r)
         /\ Len(sent[r]) = 1 /\ sent[r][1].status = 400
         /\ Truthy(badRequest[r].message)
              => Contains(sent[r][1].error, badRequest[r].message)
         /\ Len(submitted[r]) = badRequest[r].at
         /\ nQueries[r] = 0

C5_Witness ==
  \E r \in Requests :
    /\ badRequest[r].at = 1 /\ Truthy(badRequest[r].message)
    /\ Len(modelGroups) > 1
    /\ Answered(r) /\ sent[r][1].status = 400

\* the for loop over the groups ran to its end without a job id
Exhausted(r) ==
  /\ Admitted(r)
  /\ Answered(r)
  /\ Len(submitted[r]) = Len(modelGroups)
  /\ badRequest[r] = NoBadRequest
  /\ ~Truthy(jobId[r])

\* C6: a request with a prompt whose submission loop ends without a job id
\* (the list is empty, or every group was tried and none was accepted, none
\* being rejected with HTTP 400) is answered HTTP 503, exactly once, and no
\* status query is issued.
C6_ExhaustedIs503 ==
  \A r \in Requests :
    Exhausted(r)
      => /\ Len(sent[r]) = 1 /\ sent[r][1].status = 503
         /\ nQueries[r] = 0

C6_Witness ==
  \E r \in Requests :
    /\ Exhausted(r) /\ Len(modelGroups) = MaxGroups
    /\ sent[r][1].status = 503

C6_WitnessEmpty ==
  \E r \in Requests :
    Exhausted(r) /\ Len(modelGroups) = 0 /\ sent[r][1].status = 503

\* C7: a success answer of the internal poller (HTTP 200 of /generate-image)
\* and a 'completed' answer of GET /image-status both carry a non-empty
\* imageUrl, whatever the status answer of the provider contains.
C7_DoneHasImageUrl ==
  /\ \A r \in Requests : \A i \in 1..Len(sent[r]) :
       sent[r][i].status = 200 => Truthy(sent[r][i].imageUrl)
  /\ \A p \in Polls : \A i \in 1..Len(ssent[p]) :
       ssent[p][i].status = "completed" => Truthy(ssent[p][i].imageUrl)

\* the reason the handler put into the answer to a faulted job
FaultReason(r) == sent[r][1].error[2]

\* C8: whenever the poller answers a faulted job, the reason in the HTTP 500
\* answer is a non-empty reason given by the provider, also when the status
\* answer sets faulted without a fault_message.
C8_FaultReasonNonEmpty ==
  \A r \in Requests :
    (Answered(r) /\ faultAt[r] # NoFault)
      => /\ Truthy(FaultReason(r))
         /\ FaultReason(r) = faultAt[r].fault_message

\* the terminal states of the poller, read off the answer and its cause
Done(r) ==
  /\ Len(sent[r]) = 1 /\ sent[r][1].status = 200 /\ Truthy(sent[r][1].imageUrl)

Faulted(r) ==
  /\ Len(sent[r]) = 1 /\ sent[r][1].status = 500 /\ faultAt[r] # NoFault

TimedOut(r) ==
  /\ Len(sent[r]) = 1 /\ sent[r][1].status = 504

\* a status query or the history write threw: the outer catch answered
Failed(r) ==
  /\ Len(sent[r]) = 1 /\ sent[r][1].status = 500 /\ faultAt[r] = NoFault
  /\ \/ qFailedAt[r] # 0
     \/ Truthy(imageUrl[r]) /\ sent[r][1].error = OuterCatchMessage(NoError)

Terminal(r, o) ==
  CASE o = "Done" -> Done(r)
    [] o = "Faulted" -> Faulted(r)
    [] o = "TimedOut" -> TimedOut(r)
    [] o = "Failed" -> Failed(r)

\* C9 as claimed: every job handle ends in exactly one of Done, Faulted and
\* TimedOut (and stays there).
C9_ThreeTerminalStates ==
  \A r \in Requests :
    (Truthy(jobId[r]) /\ Answered(r))
      => Cardinality({o \in {"Done", "Faulted", "TimedOut"} : Terminal(r, o)}) = 1

C9_OneTerminalState ==
  \A r \in Requests :
    (Truthy(jobId[r]) /\ Answered(r))
      => Cardinality({o \in {"Done", "Faulted", "TimedOut", "Failed"} : Terminal(r, o)}) = 1

C9_Absorbing ==
  \A r \in Requests :
    Answered(r)
      => /\ Answered(r)'
         /\ sent'[r] = sent[r]
         /\ nQueries'[r] = nQueries[r]
         /\ inflight' = inflight

\* C9 as amended: every job handle created by a successful submission ends in
\* exactly one of Done, Faulted, TimedOut and Failed (a status query or the
\* history write threw; HTTP 500); these states are absorbing: no further
\* status query is issued for the job and the answer never changes.
C9_Terminal ==
  /\ []C9_OneTerminalState
  /\ [][C9_Absorbing]_vars
  /\ \A r \in Requests : Truthy(jobId[r]) ~> Answered(r)

C9_Witness ==
  \E r \in Requests :
    /\ Truthy(jobId[r]) /\ Answered(r) /\ Failed(r) /\ qFailedAt[r] = 2

\* every await of a handler returns or throws: axios calls carry a timeout,
\* timers fire
FairSpec == Spec /\ \A r \in Requests : WF_vars(Arrive(r) \/ InitiateReturn(r) \/ TimerFire(r) \/ StatusReturn(r) \/ SaveReturn(r))

\* at no time are two status queries for one job id outstanding
C10_OneQueryPerJob ==
  \A q1 \in inflight : \A q2 \in inflight : q1.job = q2.job => q1 = q2

\* a status query is issued by a handler whose poll timer was pending and
\* which has no status query outstanding
C10_QueryAfterReturnAndInterval ==
  \A r \in Requests :
    nQueries'[r] # nQueries[r]
      => /\ pc[r] = "sleep"
         /\ \A q \in inflight : q.req # r /\ q.job # jobId[r]
         /\ nQueries'[r] = nQueries[r] + 1

\* C10: with several /generate-image requests in flight there is one polling
\* task per submitted job: no two status queries for the same job id are
\* outstanding at once, and the next status query of a job is issued only
\* after the previous one has returned and the poll interval has elapsed.
C10_OnePollingTaskPerJob ==
  []C10_OneQueryPerJob /\ [][C10_QueryAfterReturnAndInterval]_vars

C10_Witness ==
  \E r1 \in Requests : \E r2 \in Requests :
    /\ r1 # r2
    /\ nQueries[r1] >= 2
    /\ \E q \in inflight : q.req = r1
    /\ \E q \in inflight : q.req = r2

\* the answer of the outer catch to the provider's rate limit
RateLimitText ==
  <<"You are generating images too quickly. Please wait a minute and try again.">>

\* C12: every call to the provider that throws is answered with an HTTP error
\* that reflects it: a status query that throws and a submission rejected
\* with HTTP 400 end in an HTTP error, and a rate limit of the provider (HTTP
\* 429, '10 per 1 minute') is answered with the rate-limit error, at
\* submission as well as at a status query.
C12_UpstreamFailureSurfaced ==
  \A r \in Requests :
    Answered(r)
      => /\ (qFailedAt[r] # 0 \/ badRequest[r] # NoBadRequest) => sent[r][1].status >= 400
         /\ rateLimited[r] # "none"
              => /\ Len(sent[r]) = 1 /\ sent[r][1].status >= 400
                 /\ sent[r][1].error = RateLimitText

\* the rate limit met at a status query is surfaced
C12_WitnessStatus ==
  \E r \in Requests :
    /\ Answered(r) /\ rateLimited[r] = "status"
    /\ sent[r] = <<ErrorJson(500, RateLimitText)>>

\* C18: a status query that throws ends the polling of the internal poller
\* at once: the handler answers HTTP 500 (never 504), the query is not
\* retried and no further status query or submission is issued.
C18_FailedQueryAnswer ==
  \A r \in Requests :
    qFailedAt[r] # 0
      => /\ Answered(r)
         /\ Len(sent[r]) = 1 /\ sent[r][1].status = 500
         /\ nQueries[r] = qFailedAt[r]

C18_FailedQueryStops ==
  \A r \in Requests :
    qFailedAt[r] # 0
      => /\ nQueries'[r] = nQueries[r]
         /\ submitted'[r] = submitted[r]
         /\ sent'[r] = sent[r]

C18_FailedQueryEndsPolling == []C18_FailedQueryAnswer /\ [][C18_FailedQueryStops]_vars

C18_Witness ==
  \E r \in Requests :
    /\ qFailedAt[r] = 2 /\ rateLimited[r] = "status"
    /\ attempts[r] = 2 /\ attempts[r] < maxAttempts
    /\ Answered(r) /\ sent[r][1].status = 500

\* C19 as claimed: a status answer whose generations list is non-empty with a
\* non-empty img and whose faulted flag is set yields Done: HTTP 200 with that
\* img, never the fault answer.
C19_GenerationBeatsFaultDone ==
  \A r \in Requests :
    (Answered(r) /\ faultedGen[r].seen /\ Truthy(faultedGen[r].img))
      => Done(r) /\ sent[r][1].imageUrl = faultedGen[r].img

\* C19 as amended: a status answer whose generations list is non-empty with a
\* non-empty img and whose faulted flag is set is taken as a completed
\* generation, never as a fault: polling stops, the history entry is written,
\* and the answer is HTTP 200 with that img, or HTTP 500 of the outer catch
\* when the history write fails; it is never the fault answer.
C19_GenerationBeatsFault ==
  \A r \in Requests :
    (faultedGen[r].seen /\ Truthy(faultedGen[r].img))
      => /\ faultAt[r] = NoFault
         /\ imageUrl[r] = faultedGen[r].img
         /\ pc[r] \in {"save", "done"}
         /\ Answered(r) =>
              \/ Done(r) /\ sent[r][1].imageUrl = faultedGen[r].img
              \/ sent[r] = <<ErrorJson(500, OuterCatchMessage(NoError))>>

C19_Witness ==
  \E r \in Requests :
    /\ faultedGen[r].seen /\ Truthy(faultedGen[r].img)
    /\ Done(r) /\ sent[r][1].imageUrl = faultedGen[r].img

\* a request is answered exactly when one response has been sent on res
C20_AtMostOneResponse ==
  \A r \in Requests :
    /\ Len(sent[r]) <= 1
    /\ pc[r] # "absent" => (Answered(r) <=> Len(sent[r]) = 1)

\* C20: the internal /generate-image handler sends exactly one HTTP response
\* per request on every path: never a second one, and every request that
\* arrived is eventually answered.
C20_ExactlyOneResponse ==
  /\ []C20_AtMostOneResponse
  /\ \A r \in Requests : (pc[r] = "start") ~> (Len(sent[r]) = 1)

C20_Witness ==
  \E r \in Requests :
    /\ Len(sent[r]) = 1 /\ sent[r][1].status = 500
    /\ Truthy(imageUrl[r]) /\ badRequest[r] = NoBadRequest
    /\ Len(submitted[r]) = 2

\* the handler of status request p has ended, with or without an answer
Finished(p) == spc[p] \in {"done", "lost"}

\* both status requests asked for the same job and the upstream status of
\* both reported it done with the same image
BothSawDone(p1, p2) ==
  /\ p1 # p2 /\ Finished(p1) /\ Finished(p2)
  /\ Truthy(sjobId[p1]) /\ sjobId[p1] = sjobId[p2]
  /\ supstream[p1].state = "answered" /\ supstream[p1].done /\ Truthy(supstream[p1].img)
  /\ supstream[p2] = supstream[p1]

Completed(p, img) ==
  /\ Len(ssent[p]) = 1 /\ ssent[p][1].code = 200
  /\ ssent[p][1].status = "completed" /\ ssent[p][1].imageUrl = img

\* C13 as claimed: once a job is Done, two calls of GET /image-status for it
\* both return status 'completed' with the same imageUrl.
C13_TwiceCompleted ==
  \A p1 \in Polls : \A p2 \in Polls :
    BothSawDone(p1, p2)
      => Completed(p1, supstream[p1].img) /\ Completed(p2, supstream[p1].img)

C13_TwiceCompletedOrUpdateFailed ==
  \A p1 \in Polls : \A p2 \in Polls :
    BothSawDone(p1, p2)
      => \A p \in {p1, p2} :
           \/ Completed(p, supstream[p1].img)
           \/ variant = "history" /\ ssent[p] = <<StatusCheckFailed>>

\* no step of a status request creates a job at the provider
C13_NoResubmission ==
  (\E p \in Polls : spc'[p] # spc[p]) => hsubmitted' = hsubmitted

\* C13 as amended: once a job is Done, each of two calls of GET /image-status
\* for it returns status 'completed' with the same imageUrl, except that a
\* call of part_008 whose update of the history row fails answers HTTP 500
\* 'Status check failed'; neither call submits a new generation job.
C13_Idempotent == []C13_TwiceCompletedOrUpdateFailed /\ [][C13_NoResubmission]_vars

C13_Witness ==
  \E p1 \in Polls : \E p2 \in Polls :
    /\ BothSawDone(p1, p2) /\ supstream[p1].faulted
    /\ Completed(p1, "https://x/1.png") /\ Completed(p2, "https://x/1.png")
    /\ hsubmitted = {sjobId[p1]}

StatusValues == {"processing", "completed", "failed"}

\* the status of the answer is the one the upstream status calls for, and
\* the fields go with the status
StatusMatches(answer, upstream) ==
  /\ answer.code = 200
  /\ answer.status \in StatusValues
  /\ answer.status = "completed" <=> upstream.done
  /\ answer.status = "failed" <=> (upstream.faulted /\ ~upstream.done)
  /\ answer.imageUrl # undefined => answer.status = "completed"
  /\ (answer.waitTime # undefined \/ answer.queuePosition # undefined)
       => answer.status # "completed"

\* C14 as claimed: GET /image-status/:jobId always answers with a status out
\* of 'processing', 'completed', 'failed': 'completed' exactly when the
\* upstream status reports done, 'failed' exactly when it reports faulted and
\* not done; imageUrl comes only with 'completed', waitTime and queuePosition
\* only with the other two.
C14_AlwaysStatus ==
  \A p \in Polls :
    (variant = "history" /\ Finished(p))
      => /\ Len(ssent[p]) = 1
         /\ ssent[p][1].status \in StatusValues
         /\ supstream[p].state = "answered" => StatusMatches(ssent[p][1], supstream[p])

\* C14 as amended: GET /image-status/:jobId answers HTTP 500 'Status check
\* failed' without a status when the upstream status query throws or the
\* update of the completed row fails; every other answer carries a status out
\* of 'processing', 'completed', 'failed': 'completed' exactly when the
\* upstream status reports done, 'failed' exactly when it reports faulted and
\* not done; imageUrl comes only with 'completed', waitTime and queuePosition
\* only with the other two.
C14_StatusOrError ==
  \A p \in Polls :
    (variant = "history" /\ Finished(p))
      => /\ Len(ssent[p]) = 1
         /\ \/ /\ ssent[p][1] = StatusCheckFailed
               /\ supstream[p].state = "threw" \/ supstream[p].done
            \/ /\ supstream[p].state = "answered"
               /\ StatusMatches(ssent[p][1], supstream[p])

C14_Witness ==
  \E p \in Polls :
    /\ variant = "history" /\ Finished(p)
    /\ supstream[p].faulted /\ ~supstream[p].done
    /\ ssent[p][1].status = "failed" /\ ssent[p][1].waitTime = "12"

\* C15: a status request on the checkUrl of an answered submission is never
\* answered 404 and asks the provider for the status of exactly the job id
\* the submission returned.
C15_CheckUrlLeadsToJob ==
  \A p \in Polls :
    (sfor[p] # 0 /\ Truthy(hjobId[sfor[p]]))
      => /\ \A i \in 1..Len(ssent[p]) : ssent[p][i].code # 404
         /\ spc[p] \in {"check", "update", "done", "lost"} => sjobId[p] = hjobId[sfor[p]]

\* part_008 keeps C15: the checkUrl carries the job id itself
C15_WitnessHistory ==
  \E p \in Polls :
    /\ variant = "history" /\ sfor[p] # 0 /\ Truthy(hjobId[sfor[p]])
    /\ Finished(p) /\ ssent[p][1].code = 200 /\ sjobId[p] = hjobId[sfor[p]]

KeyOf(c) == Or(cbody[c].conversationId, UserOf(c))

FairSpecShared ==
  SpecShared /\ \A c \in Chats : WF_vars(ChatArrive(c) \/ ChatSearchReturn(c) \/ ChatGeminiReturn(c) \/ ChatMistralReturn(c) \/ ChatSaveReturn(c))

C16_AtMostOneAnswer == \A c \in Chats : Len(csent[c]) <= 1

\* C16: every POST /chat with a non-empty message eventually receives
\* exactly one HTTP response, whatever fails in Gemini, Mistral, the web
\* search or the Firestore write of the chat entry.
C16_AlwaysAnswered ==
  /\ []C16_AtMostOneAnswer
  /\ \A c \in Chats :
       (cpc[c] \notin {"absent", "start"} /\ Truthy(cbody[c].message)) ~> (Len(csent[c]) = 1)

\* the chains of calls the fallback order allows, complete or under way
FullChains ==
  { <<"gemini", "gemini-ok">>,
    <<"gemini", "gemini-failed", "mistral", "mistral-ok">>,
    <<"gemini", "gemini-failed", "mistral", "mistral-failed", "static">> }

Prefixes(full) == { SubSeq(full, 1, n) : n \in 0..Len(full) }

AllowedChains == UNION { Prefixes(full) : full \in FullChains }

C17_WitnessGemini ==
  \E c \in Chats :
    /\ chain[c] = <<"gemini", "gemini-ok">>
    /\ Len(csent[c]) = 1 /\ csent[c][1].status = 200 /\ csent[c][1].usingFallback = FALSE

\* the history entry of request r for the image it found is in the collection
HistoryWritten(r, url) ==
  \E e \in image_generations :
    e.userId = r /\ e.prompt = body[r].prompt /\ e.imageUrl = url

\* C21: in the internally-polling handler the success answer follows
\* persistence: HTTP 200 with imageUrl is sent only when the image_generations
\* entry for that user, prompt and imageUrl has been written, and when that
\* write fails the caller receives HTTP 500 without imageUrl although the
\* upstream job completed.
C21_AnswerFollowsPersistence ==
  \A r \in Requests :
    /\ \A i \in 1..Len(sent[r]) :
         (sent[r][i].status = 200 /\ sent[r][i].imageUrl # undefined)
           => HistoryWritten(r, sent[r][i].imageUrl)
    /\ (Answered(r) /\ Truthy(imageUrl[r]) /\ ~HistoryWritten(r, imageUrl[r]))
         => /\ Len(sent[r]) = 1 /\ sent[r][1].status = 500
            /\ sent[r][1].imageUrl = undefined

\* the upstream job completed, the history write failed, the caller got 500
C21_Witness ==
  \E r \in Requests :
    /\ Answered(r) /\ imageUrl[r] = "https://x/1.png" /\ image_generations = {}
    /\ sent[r] = <<ErrorJson(500, OuterCatchMessage(NoError))>>

C21_WitnessSaved ==
  \E r \in Requests :
    /\ Done(r) /\ HistoryWritten(r, sent[r][1].imageUrl)

\* the handler of part_004 has answered a job none of whose check queries
\* threw or reported done
NeverDone == kpc = "done" /\ kchecks > 0 /\ ~kdone /\ kthrown = "none"

C22_ThirtyChecks ==
  /\ kchecks <= maxAttemptsCheck
  /\ NeverDone
       => /\ kchecks = maxAttemptsCheck
          /\ ksent = <<CheckJson(500, "Image generation failed", "Image generation timeout", undefined)>>

\* a check query is issued after as many delays as checks went before it
C22_ChecksSpacing == kchecks' # kchecks => (kchecks' = kchecks + 1 /\ kdelays' = kchecks)

\* C22: in the check-then-sleep handler of part_004 a job whose check
\* answers never report done receives exactly 30 check queries, the first
\* without a delay before it and each later one after one more one-second
\* delay, and is then answered HTTP 500 with details 'Image generation
\* timeout'; the fault flag changes nothing: a faulted job is answered the
\* same way, after the 30 checks.
C22_CheckThenSleepTimeout == []C22_ThirtyChecks /\ [][C22_ChecksSpacing]_vars

\* a job that was faulted all along is answered after 30 checks
C22_Witness ==
  /\ NeverDone /\ kfaulted /\ kchecks = 30 /\ kattempts = 30
  /\ ksent # <<>> /\ ksent[1].status = 500 /\ ksent[1].details = "Image generation timeout"

\* every callback and await of a status request returns or throws
SpecStatus == InitClientPolled /\ [][NextStatus]_vars

FairSpecStatus ==
  SpecStatus /\ \A p \in Polls : WF_vars(PollArrive(p) \/ PollLookupReturn(p) \/ PollCheckReturn(p) \/ PollUpdateReturn(p) \/ PollStatusReturn(p))

C23_AtMostOneAnswer == \A p \in Polls : Len(ssent[p]) <= 1

\* C23: in the SQLite client-polling variant every GET /image-status/:imageId
\* eventually receives exactly one HTTP response, also for an unknown image
\* id, a failed upstream status query and a done status with an empty
\* generations list.
C23_StatusAlwaysAnswered ==
  /\ []C23_AtMostOneAnswer
  /\ \A p \in Polls :
       (variant = "sqlite" /\ spc[p] \notin {"absent", "start"}) ~> (Len(ssent[p]) = 1)

\* status request p asks for the job of a submission that has been answered
OfAnsweredSubmission(p) ==
  \E h \in Submits : hpc[h] = "done" /\ Truthy(hjobId[h]) /\ hjobId[h] = sjobId[p]

\* the row of job J is completed with image url U
CompletedRow(table, J, U) ==
  \E row \in table :
    row.id = <<"horde_", J>> /\ row.status = "completed" /\ row.image_url = U

\* the step in which a status request for a submitted job answers
\* 'completed' with an imageUrl leaves the completed row of the job in the
\* table
C24_RowAtAnswer ==
  \A p \in Polls :
    (/\ variant = "history" /\ OfAnsweredSubmission(p)
     /\ ssent[p] = <<>> /\ ssent'[p] # <<>>
     /\ ssent'[p][1].status = "completed" /\ Truthy(ssent'[p][1].imageUrl))
      => CompletedRow(images', sjobId[p], ssent'[p][1].imageUrl)

\* C24: in part_008, whenever GET /image-status/:jobId answers 'completed'
\* with imageUrl U for job J, the images table holds a row with id 'horde_J',
\* status 'completed' and image_url U, in every interleaving with the
\* un-awaited rename of the row that POST /generate-image started.
C24_CompletedRowHeld == [][C24_RowAtAnswer]_vars

\* with the rename applied before the status request updates, the row is held
C24_WitnessRenamed ==
  \E p \in Polls :
    /\ variant = "history" /\ OfAnsweredSubmission(p) /\ dbPending = {}
    /\ Completed(p, "https://x/1.png")
    /\ CompletedRow(images, sjobId[p], "https://x/1.png")

\* the row POST /generate-image of part_008 inserted for submission h, as
\* inserted
PendingRow(h) == Row(<<ImageIdOf(h)>>, undefined)

\* submission h was answered HTTP 500
Answered500(h) == hpc[h] = "done" /\ Len(hsent[h]) = 1 /\ hsent[h][1].code = 500

\* the row is in the table before the job is submitted
C25_RowInsertedFirst ==
  \A h \in Submits :
    variant = "history"
      => /\ hpc[h] = "generate" => PendingRow(h) \in images
         /\ hpc[h] \in {"start", "insert", "generate"} => hjobId[h] = undefined

\* a failing submission is answered HTTP 500, leaves the row as inserted and
\* starts no statement on it; no later step changes the row
C25_FailedRowStays ==
  \A h \in Submits :
    /\ (variant = "history" /\ hpc[h] = "generate" /\ hpc'[h] = "done"
        /\ hsent'[h][1].code # 200)
         => /\ hsent'[h] = <<SubmitError(500, "Image generation failed")>>
            /\ PendingRow(h) \in images'
            /\ dbPending' = dbPending
    /\ (variant = "history" /\ Answered500(h) /\ PendingRow(h) \in images)
         => PendingRow(h) \in images'

\* C25: in part_008 the images row is inserted before the upstream
\* submission; when the submission fails the handler answers HTTP 500 and the
\* row stays with its UUID id and status 'pending' for ever: no later
\* /image-status request moves it to 'completed'.
C25_FailedSubmissionRowPending == []C25_RowInsertedFirst /\ [][C25_FailedRowStays]_vars

\* after the failed submission a status request asked with the id of the row
\* has answered 'completed', and the row is still pending
C25_Witness ==
  \E h \in Submits : \E p \in Polls :
    /\ variant = "history" /\ Answered500(h) /\ PendingRow(h) \in images
    /\ sparam[p] = <<ImageIdOf(h)>> /\ Completed(p, "https://x/1.png")

\* the requests of ip that were admitted less than windowMs ago
AdmittedInWindow(ip) == earlierFresh[ip] + Cardinality({c \in fresh : lip[c] = ip})

\* the timers of ip that are pending
PendingTimers(ip) == earlier[ip] + Cardinality({t \in rateTimers : t.ip = ip})

\* at most max requests of an ip are admitted within windowMs: the count of
\* an ip is the number of its pending timers, and every request admitted less
\* than windowMs ago has its timer pending
C26_AtMostMaxInWindow ==
  \A ip \in Ips :
    /\ AdmittedInWindow(ip) <= RateLimitMax
    /\ AdmittedInWindow(ip) <= PendingTimers(ip)
    /\ requestCounts[ip] = PendingTimers(ip)

\* a rejected request was answered 429 with retryAfter and reached no handler
C26_RejectedAnswer ==
  \A c \in Clients :
    /\ lpc[c] = "limited" <=> lsent[c] = <<TooManyRequests>>
    /\ lpc[c] # "limited" => lsent[c] = <<>>

\* a request that arrives while max requests of its ip were admitted less
\* than windowMs ago is rejected; a request is rejected only on the count of
\* its own ip and changes no count of another ip; a rejected request never
\* reaches a handler
C26_ArrivalStep ==
  \A c \in Clients :
    /\ (lpc[c] = "start" /\ lpc'[c] # "start")
         => /\ AdmittedInWindow(lip'[c]) >= RateLimitMax => lpc'[c] = "limited"
            /\ lpc'[c] = "limited"
                 => (requestCounts[lip'[c]] >= RateLimitMax /\ requestCounts' = requestCounts)
            /\ \A ip \in Ips \ {lip'[c]} : requestCounts'[ip] = requestCounts[ip]
    /\ lpc[c] = "limited" => lpc'[c] = "limited"

\* C26: the rate limiter of part_008 admits at most 100 requests per client
\* IP in any window of 15 minutes: a request that arrives while 100 earlier
\* requests of the same IP were admitted less than windowMs ago is answered
\* HTTP 429 with retryAfter and never reaches a route handler, and requests
\* of other IPs are unaffected.
C26_RateLimit ==
  [](C26_AtMostMaxInWindow /\ C26_RejectedAnswer) /\ [][C26_ArrivalStep]_vars

\* the 100th request of an ip within the window was admitted, the next one
\* of that ip was answered 429, and a request of the other ip would pass
C26_Witness ==
  \E c1 \in Clients : \E c2 \in Clients :
    /\ lip[c1] = "10.0.0.1" /\ lip[c2] = "10.0.0.1"
    /\ lpc[c1] = "passed" /\ c1 \in fresh /\ AdmittedInWindow("10.0.0.1") = RateLimitMax
    /\ lpc[c2] = "limited" /\ lsent[c2][1].status = 429 /\ lsent[c2][1].retryAfter = 900
    /\ requestCounts["10.0.0.2"] = 0
====
